---------------------------- MODULE Spec2Model ----------------------------
(***************************************************************************)
(* Model of the context-taking settings library of rp-settings             *)
(* (src/src/settings.c lines 374-848, src/src/settings.h lines 262-479):   *)
(* a fixed-schema key/value table kept in RAM, loaded from and saved to a  *)
(* block-erasable flash region.                                            *)
(*                                                                         *)
(* Representation.                                                         *)
(*  - A C string is the sequence of its characters up to the terminating   *)
(*    NUL; a character is a one-character string.  The token "xFF" stands  *)
(*    for a field all of whose bytes are 0xFF (erased flash), "rom" and    *)
(*    "fw" for fields of opaque non-text bytes (boot ROM, firmware).       *)
(*  - A uint32_t is a pair of 16-bit limbs [hi, lo], so that 32-bit        *)
(*    arithmetic keeps its width.                                          *)
(*  - Flash is an array of pages of SETTINGS_FLASH_PAGE_SIZE bytes, each   *)
(*    an array of EntriesPerPage records of sizeof(SettingsConfigEntry).   *)
(*  - An array of n records (a flash page, the entry buffer) is kept as    *)
(*    [n, head, fill]: slots 1 .. Len(head) hold head, the slots after     *)
(*    them up to n all hold fill; head never ends with fill, so that equal *)
(*    arrays are equal values.                                             *)
(*  - Keys given to the API hold at most SETTINGS_MAX_KEY_LENGTH - 1       *)
(*    characters: the parameter type is char[SETTINGS_MAX_KEY_LENGTH].     *)
(***************************************************************************)
EXTENDS Integers, Sequences, FiniteSets, TLC

(***************************************************************************)
(* Program constants (src/src/settings.h).                                 *)
(***************************************************************************)
SETTINGS_MAX_KEY_LENGTH == 30
SETTINGS_MAX_VALUE_LENGTH == 96
SETTINGS_TYPE_SIZE2 == 2
SETTINGS_FLASH_PAGE_SIZE == 4096
SETTINGS_DEFAULT_FLASH_SIZE == 4096
SETTINGS_BASE_10 == 10
SETTINGS_SHIFT_LEFT_16_BITS == 16
SETTINGS_TYPE_INT == 0
SETTINGS_TYPE_STRING == 1
SETTINGS_TYPE_BOOL == 2

SETTINGS_MAGICVERSION_KEY ==
    <<"M", "A", "G", "I", "C", "V", "E", "R", "S", "I", "O", "N">>

\* sizeof(SettingsConfigEntry): key + type tag + value (settings.h:78, "the
\* sum of the three values is 128").  The tag is an enum whose width the
\* compiler chooses; with the one-byte enum of arm-none-eabi the record has
\* 127 bytes.  Either way a page holds 32 records and the value field
\* follows the tag, which is all that the model takes from the layout.
SizeofEntry ==
    SETTINGS_MAX_KEY_LENGTH + SETTINGS_TYPE_SIZE2 + SETTINGS_MAX_VALUE_LENGTH

EntriesPerPage == SETTINGS_FLASH_PAGE_SIZE \div SizeofEntry

\* 2^16, the weight of the high limb of a uint32_t.
Limb == 2 ^ SETTINGS_SHIFT_LEFT_16_BITS

(***************************************************************************)
(* Characters and text.                                                    *)
(***************************************************************************)
Upper == {"A", "B", "C", "D", "E", "F", "G", "H", "I", "J", "K", "L", "M",
          "N", "O", "P", "Q", "R", "S", "T", "U", "V", "W", "X", "Y", "Z"}

DigitChars == <<"0", "1", "2", "3", "4", "5", "6", "7", "8", "9">>

Digit == {DigitChars[i] : i \in 1..10}

Space == {" ", "\t", "\n"}

isupper(chr) == chr \in Upper

isdigit(chr) == chr \in Digit

isspace(chr) == chr \in Space

DigitValue(chr) == (CHOOSE i \in 1..10 : DigitChars[i] = chr) - 1

Take(s, n) == IF Len(s) <= n THEN s ELSE SubSeq(s, 1, n)

Rep(chr, n) == [i \in 1..n |-> chr]

\* a copy that fills all n characters and leaves no room for the terminator
strncpyWhole(src, n) == Take(src, n)

\* strncpy(dst, src, n - 1); dst[n - 1] = '\0': at most n - 1 characters.
strncpyTerminated(src, n) == Take(src, n - 1)

\* strncmp(a, b, n) == 0
strncmpEqual(a, b, n) == Take(a, n) = Take(b, n)

(***************************************************************************)
(* Numbers and their text.                                                 *)
(***************************************************************************)
U32(hi, lo) == [hi |-> hi, lo |-> lo]

ULONG_MAX == U32(Limb - 1, Limb - 1)

\* 0 - x in 32 bits
U32Neg(x) ==
    IF x.hi = 0 /\ x.lo = 0 THEN x
    ELSE IF x.lo = 0 THEN U32(Limb - x.hi, 0)
    ELSE U32(Limb - 1 - x.hi, Limb - x.lo)

\* x div 10 and x mod 10, by long division on the limbs
U32Div10(x) ==
    LET mid == (x.hi % 10) * Limb + x.lo
    IN  [q |-> U32(x.hi \div 10, mid \div 10), r |-> mid % 10]

RECURSIVE DecimalText(_)
\* printf("%lu") of a uint32_t
DecimalText(x) ==
    LET d == U32Div10(x)
    IN  IF d.q.hi = 0 /\ d.q.lo = 0 THEN <<DigitChars[d.r + 1]>>
        ELSE DecimalText(d.q) \o <<DigitChars[d.r + 1]>>

\* snprintf(buffer, sizeof(buffer), "%d", value) of an int
IntText(value) ==
    IF value < 0 THEN <<"-">> \o DecimalText(U32(0, -value))
    ELSE DecimalText(U32(0, value))

RECURSIVE SkipSpace(_)
SkipSpace(s) ==
    IF Len(s) > 0 /\ isspace(Head(s)) THEN SkipSpace(Tail(s)) ELSE s

RECURSIVE ParseDigits(_, _, _)
\* the digit loop of strtoul: acc * 10 + digit, saturating on overflow
ParseDigits(s, acc, over) ==
    IF Len(s) = 0 \/ ~isdigit(Head(s)) THEN [acc |-> acc, over |-> over]
    ELSE LET lo == acc.lo * SETTINGS_BASE_10 + DigitValue(Head(s))
             hi == acc.hi * SETTINGS_BASE_10 + lo \div Limb
         IN  IF over \/ hi >= Limb
             THEN ParseDigits(Tail(s), ULONG_MAX, TRUE)
             ELSE ParseDigits(Tail(s), U32(hi, lo % Limb), FALSE)

\* (uint32_t)strtoul(text, NULL, 10) with a 32-bit unsigned long: leading
\* white space, an optional sign, then digits up to the first other
\* character; 0 when there is no digit, ULONG_MAX on overflow.
strtoul(text) ==
    LET s    == SkipSpace(text)
        neg  == Len(s) > 0 /\ Head(s) = "-"
        body == IF Len(s) > 0 /\ Head(s) \in {"+", "-"} THEN Tail(s) ELSE s
        p    == ParseDigits(body, U32(0, 0), FALSE)
    IN  IF p.over THEN ULONG_MAX
        ELSE IF neg THEN U32Neg(p.acc)
        ELSE p.acc

(***************************************************************************)
(* Records: SettingsConfigEntry (settings.h:344-348).                      *)
(***************************************************************************)
Entry(key, dataType, value) ==
    [key |-> key, dataType |-> dataType, value |-> value]

\* a record of erased flash: every byte 0xFF
ErasedEntry == Entry(<<"xFF">>, 255, <<"xFF">>)

\* a record of zero bytes
ZeroEntry == Entry(<<>>, 0, <<>>)

\* 128 bytes of the boot ROM at address 0, and of the firmware image
RomEntry == Entry(<<"rom">>, 114, <<"rom">>)

FirmwareEntry == Entry(<<"fw">>, 102, <<"fw">>)

(***************************************************************************)
(* Arrays of records.                                                      *)
(***************************************************************************)
RECURSIVE Trim(_, _)
Trim(head, fill) ==
    IF Len(head) > 0 /\ head[Len(head)] = fill
    THEN Trim(SubSeq(head, 1, Len(head) - 1), fill)
    ELSE head

Array(n, head, fill) == [n |-> n, head |-> Trim(head, fill), fill |-> fill]

\* the array in which every one of n slots holds fill
Filled(n, fill) == Array(n, <<>>, fill)

\* slot i (from 1) of an array, for 1 <= i <= a.n
At(a, i) == IF i <= Len(a.head) THEN a.head[i] ELSE a.fill

\* the array with slot i set to e; a store outside 1 .. a.n changes no slot
Store(a, i, e) ==
    IF i < 1 \/ i > a.n THEN a
    ELSE Array(a.n,
               [j \in 1..(IF i > Len(a.head) THEN i ELSE Len(a.head)) |->
                   IF j = i THEN e ELSE At(a, j)],
               a.fill)

\* a NULL entries pointer: no slot
NULL == Filled(0, RomEntry)

\* entries[i - 1] as the code reads it; a read through a NULL entries
\* pointer or past the end of the buffer yields bytes that are no record of
\* the table (on the RP2040 address 0 is the boot ROM)
EntryAt(entries, i) ==
    IF 1 <= i /\ i <= entries.n THEN At(entries, i) ELSE RomEntry

(***************************************************************************)
(* Static helpers (settings.c:389-423).                                    *)
(***************************************************************************)
\* a key check that only rejects the empty key
checkKeyNonEmpty(key) == IF Len(key) = 0 THEN -1 ELSE 0

checkKeyFormat(key) ==
    IF Len(key) = 0 THEN -1
    ELSE IF \E i \in 1..Len(key) :
               ~isupper(key[i]) /\ ~isdigit(key[i]) /\ key[i] # "_"
         THEN -1
         ELSE 0

checkTypeFormat(type) ==
    IF type # SETTINGS_TYPE_INT /\ type # SETTINGS_TYPE_STRING
       /\ type # SETTINGS_TYPE_BOOL
    THEN -1
    ELSE 0

\* index of the first of the count live entries whose key compares equal
\* to key under strncmp(.., SETTINGS_MAX_KEY_LENGTH), 0 when there is none:
\* the search loop shared by settings_find_entry, settingsUpdateEntry and
\* the flash scan
FirstMatch(entries, count, key) ==
    LET hits == {i \in 1..count :
                   strncmpEqual(EntryAt(entries, i).key, key,
                                SETTINGS_MAX_KEY_LENGTH)}
    IN  IF hits = {} THEN 0
        ELSE CHOOSE i \in hits : \A j \in hits : i <= j

(***************************************************************************)
(* Flash: the record at index idx (from 0) of the region at byte offset.   *)
(***************************************************************************)
PageOf(offset, idx) ==
    (offset \div SETTINGS_FLASH_PAGE_SIZE) + (idx \div EntriesPerPage)

FlashEntry(fl, offset, idx) ==
    IF PageOf(offset, idx) \in DOMAIN fl
    THEN At(fl[PageOf(offset, idx)], (idx % EntriesPerPage) + 1)
    ELSE ErasedEntry

ErasedPage == Filled(EntriesPerPage, ErasedEntry)

\* every page of fl from offset on, whatever the size
PagesFrom(fl, offset, size) ==
    {p \in DOMAIN fl : p >= offset \div SETTINGS_FLASH_PAGE_SIZE}

\* the pages of fl covered by [offset, offset + size)
PagesOf(fl, offset, size) ==
    {p \in DOMAIN fl : /\ p >= offset \div SETTINGS_FLASH_PAGE_SIZE
                       /\ p * SETTINGS_FLASH_PAGE_SIZE < offset + size}

(***************************************************************************)
(* SettingsContext (settings.h:353-367).  entries is the malloc'ed buffer  *)
(* of flashSettingsSize / sizeof(SettingsConfigEntry) records, or NULL.    *)
(***************************************************************************)
Context(entries, count, magic, size, offset) ==
    [entries |-> entries, count |-> count, magic |-> magic,
     flashSettingsSize |-> size, flashSettingsOffset |-> offset]

\* a SettingsContext in static storage before any call
ZeroContext == Context(NULL, 0, U32(0, 0), 0, 0)

\* the live part of the table: entries[0 .. count - 1]
Table(c) == [i \in 1..c.count |-> EntryAt(c.entries, i)]

(***************************************************************************)
(* settingsLoadDefaultEntries (settings.c:430-470).  The result is the     *)
(* buffer and count; a store past the end of the buffer leaves the buffer  *)
(* as it is (the record lands outside it) while count still grows.         *)
(***************************************************************************)
\* a loop body that ends the load at a malformed entry
LoadDefaultStepStrict(d, entry) ==
    IF Len(entry.key) = 0 THEN [d EXCEPT !.ended = TRUE]
    ELSE IF checkTypeFormat(entry.dataType) # 0 THEN [d EXCEPT !.ended = TRUE]
    ELSE IF checkKeyFormat(entry.key) # 0 THEN [d EXCEPT !.ended = TRUE]
    ELSE [d EXCEPT !.entries = Store(d.entries, d.count + 1, entry),
                   !.count = d.count + 1]

\* lines 437-461: the body of the for loop on state d, which is the buffer,
\* the count and whether the break of line 440 was taken
LoadDefaultStep(d, entry) ==
    IF Len(entry.key) = 0 THEN [d EXCEPT !.ended = TRUE]
    ELSE IF checkTypeFormat(entry.dataType) # 0 THEN d
    ELSE IF checkKeyFormat(entry.key) # 0 THEN d
    ELSE [d EXCEPT !.entries = Store(d.entries, d.count + 1, entry),
                   !.count = d.count + 1]

RECURSIVE LoadDefaultLoop(_, _, _, _)
\* lines 436-462: the for loop from iteration i (from 1) in state d
LoadDefaultLoop(d, entries, i, numEntries) ==
    IF i > numEntries \/ d.ended THEN d
    ELSE LoadDefaultLoop(LoadDefaultStep(d, entries[i]), entries, i + 1,
                         numEntries)

settingsLoadDefaultEntries(buf, entries, numEntries) ==
    LET d == LoadDefaultLoop([entries |-> buf, count |-> 0, ended |-> FALSE],
                             entries, 1, numEntries)
    IN  [entries |-> d.entries, count |-> d.count]

(***************************************************************************)
(* settingsLoadAllEntries (settings.c:475-568).                            *)
(***************************************************************************)
\* the text at magicAddress: the value field of the region's first record
StoredMagicText(fl, offset) ==
    Take(FlashEntry(fl, offset, 0).value, SETTINGS_MAX_VALUE_LENGTH)

\* a merge that never takes a record of the region
KeepDefault(buf, bufCount, entry) == buf

\* a merge that puts a record without matching entry over the last entry
OverwriteOrLast(buf, bufCount, entry) ==
    LET i == FirstMatch(buf, bufCount, entry.key)
    IN  IF i = 0 THEN Store(buf, bufCount, entry) ELSE Store(buf, i, entry)

\* lines 555-563: overwrite the first live entry with the record's key
OverwriteMatch(buf, bufCount, entry) ==
    LET i == FirstMatch(buf, bufCount, entry.key)
    IN  IF i = 0 THEN buf ELSE Store(buf, i, entry)

\* a loop body that passes over an invalid record and goes on
ScanStepSkip(d, bufCount, entry) ==
    IF Len(entry.key) = 0 THEN d
    ELSE IF checkKeyFormat(entry.key) # 0 THEN d
    ELSE IF checkTypeFormat(entry.dataType) # 0 THEN d
    ELSE [d EXCEPT !.entries = OverwriteMatch(d.entries, bufCount, entry)]

\* lines 529-564: the body of the while loop on state d, which is the
\* buffer and whether a break was taken; entry is the record read
ScanStep(d, bufCount, entry) ==
    IF Len(entry.key) = 0 THEN [d EXCEPT !.ended = TRUE]
    ELSE IF checkKeyFormat(entry.key) # 0 THEN [d EXCEPT !.ended = TRUE]
    ELSE IF checkTypeFormat(entry.dataType) # 0 THEN [d EXCEPT !.ended = TRUE]
    ELSE [d EXCEPT !.entries = OverwriteMatch(d.entries, bufCount, entry)]

RECURSIVE ScanLoopOneMore(_, _, _, _, _, _)
\* a while loop that reads one record more than numEntries
ScanLoopOneMore(d, bufCount, fl, offset, count, numEntries) ==
    IF count >= numEntries + 1 \/ d.ended THEN d
    ELSE ScanLoopOneMore(ScanStep(d, bufCount, FlashEntry(fl, offset, count)),
                         bufCount, fl, offset, count + 1, numEntries)

RECURSIVE ScanLoop(_, _, _, _, _, _)
\* lines 527-565: the while loop in state d, count records read so far
ScanLoop(d, bufCount, fl, offset, count, numEntries) ==
    IF count >= numEntries \/ d.ended THEN d
    ELSE ScanLoop(ScanStep(d, bufCount, FlashEntry(fl, offset, count)),
                  bufCount, fl, offset, count + 1, numEntries)

\* a header test that accepts every region
AnyHeader(fl, offset, magic) == TRUE

\* lines 516-521: the header test
HeaderMatches(fl, offset, magic) == strtoul(StoredMagicText(fl, offset)) = magic

settingsLoadAllEntries(c, fl, entries, numEntries) ==
    LET d == settingsLoadDefaultEntries(c.entries, entries, numEntries)
    IN  IF ~HeaderMatches(fl, c.flashSettingsOffset, c.magic)
        THEN [ctx |-> [c EXCEPT !.entries = d.entries, !.count = d.count],
              ret |-> -1]
        ELSE [ctx |-> [c EXCEPT
                         !.entries =
                             ScanLoop([entries |-> d.entries,
                                       ended |-> FALSE], d.count, fl,
                                      c.flashSettingsOffset, 0,
                                      numEntries).entries,
                         !.count = d.count],
              ret |-> 0]

(***************************************************************************)
(* settings_init (settings.c:576-644), past its three asserts.             *)
(***************************************************************************)
\* line 591
MaxEntries(flashSize) == flashSize \div SizeofEntry

\* asserts that test the capacity and no alignment
InitAssertsCapacity(defaultNumEntries, flashOffset, flashSize) ==
    defaultNumEntries <= MaxEntries(flashSize)

\* lines 581-594: the asserted preconditions
InitAsserts(defaultNumEntries, flashOffset, flashSize) ==
    /\ flashSize % SETTINGS_FLASH_PAGE_SIZE = 0
    /\ flashOffset % SETTINGS_FLASH_PAGE_SIZE = 0
    /\ defaultNumEntries <= MaxEntries(flashSize)

\* lines 606-608: ((uint32_t)magic << 16) | version
HeaderCode(magic, version) == U32(magic, version)

\* lines 621-628: the MAGICVERSION entry
MagicEntry(code) ==
    Entry(SETTINGS_MAGICVERSION_KEY, SETTINGS_TYPE_INT,
          strncpyTerminated(DecimalText(code), SETTINGS_MAX_VALUE_LENGTH))

\* lines 631-633
DefaultEntriesWithMagic(code, defaultEntries) ==
    <<MagicEntry(code)>> \o defaultEntries

\* heap is the content malloc returns for the entry buffer, one record per
\* slot: malloc does not initialise it
\* an init that keeps the table of a context that has one
settings_init_once(c, fl, defaultEntries, flashOffset, flashSize, magic, version, heap) ==
    IF c.entries # NULL /\ c.count > 0
    THEN [ctx |-> c, ret |-> c.count]
    ELSE LET code == HeaderCode(magic, version)
             c1   == Context(Filled(MaxEntries(flashSize), heap), 0, code,
                             flashSize, flashOffset)
             r    == settingsLoadAllEntries(
                         c1, fl, DefaultEntriesWithMagic(code, defaultEntries),
                         Len(defaultEntries) + 1)
         IN  [ctx |-> r.ctx,
              ret |-> IF r.ret = 0 THEN r.ctx.count ELSE r.ret]

settings_init(c, fl, defaultEntries, flashOffset, flashSize, magic, version, heap) ==
    LET code == HeaderCode(magic, version)
        c1   == Context(Filled(MaxEntries(flashSize), heap), 0, code,
                        flashSize, flashOffset)
        r    == settingsLoadAllEntries(
                    c1, fl, DefaultEntriesWithMagic(code, defaultEntries),
                    Len(defaultEntries) + 1)
    IN  [ctx |-> r.ctx,
         ret |-> IF r.ret = 0 THEN r.ctx.count ELSE r.ret]

\* lines 598-603: malloc of the entry buffer returns NULL
settings_init_nomem(c, flashOffset, flashSize) ==
    [ctx |-> [c EXCEPT !.entries = NULL, !.flashSettingsSize = flashSize,
                       !.flashSettingsOffset = flashOffset],
     ret |-> -1]

\* lines 613-619: malloc of the augmented default array returns NULL
settings_init_nomem2(c, flashOffset, flashSize, magic, version, heap) ==
    [ctx |-> Context(Filled(MaxEntries(flashSize), heap), 0,
                     HeaderCode(magic, version), flashSize, flashOffset),
     ret |-> -1]

(***************************************************************************)
(* settings_deinit, settings_save, settings_erase (settings.c:646-708).    *)
(***************************************************************************)
settings_deinit(c) ==
    [ctx |-> [c EXCEPT !.entries = NULL, !.count = 0,
                       !.flashSettingsSize = SETTINGS_DEFAULT_FLASH_SIZE,
                       !.flashSettingsOffset = 0],
     ret |-> 0]

\* an erase that leaves the flash as it is
flash_range_keep(fl, offset, size) == fl

\* flash_range_erase(offset, size)
flash_range_erase(fl, offset, size) ==
    [p \in DOMAIN fl |->
        IF p \in PagesOf(fl, offset, size) THEN ErasedPage ELSE fl[p]]

\* flash_range_program(offset, (uint8_t *)entries, size) on erased pages
flash_range_program(fl, offset, entries, size) ==
    [p \in DOMAIN fl |->
        IF p \in PagesOf(fl, offset, size)
        THEN LET first == (p - (offset \div SETTINGS_FLASH_PAGE_SIZE))
                            * EntriesPerPage
                 last  == IF first + EntriesPerPage <= Len(entries.head)
                          THEN EntriesPerPage
                          ELSE IF first >= Len(entries.head) THEN 0
                          ELSE Len(entries.head) - first
             IN  Array(EntriesPerPage,
                       [i \in 1..last |-> EntryAt(entries, first + i)],
                       EntryAt(entries, first + EntriesPerPage))
        ELSE fl[p]]

\* a capacity test that lets every table pass
NeverExceeds(c) == FALSE

\* lines 665-666: totalUsed > ctx->flashSettingsSize
ExceedsRegion(c) == c.count * SizeofEntry > c.flashSettingsSize

settings_save(c, fl, disable_interrupts) ==
    IF ExceedsRegion(c)
    THEN [flash |-> fl, ret |-> -1]
    ELSE [flash |-> flash_range_program(
                        flash_range_erase(fl, c.flashSettingsOffset,
                                          c.flashSettingsSize),
                        c.flashSettingsOffset, c.entries,
                        c.flashSettingsSize),
          ret |-> 0]

\* free(ctx->entries) under "if (ctx->entries)": the buffer handed to free,
\* NULL when free is not called
Released(c) == c.entries

\* an erase that resets the context and leaves the flash as it is
settings_erase_ram(c, fl) ==
    [flash |-> fl, ctx |-> [c EXCEPT !.entries = NULL, !.count = 0],
     freed |-> Released(c), ret |-> 0]

\* an erase that frees the buffer and keeps the count
settings_erase_buffer(c, fl) ==
    [flash |-> flash_range_erase(fl, c.flashSettingsOffset,
                                 c.flashSettingsSize),
     ctx |-> [c EXCEPT !.entries = NULL],
     freed |-> Released(c),
     ret |-> 0]

\* an erase that frees the buffer and keeps the pointer to it
settings_erase_dangling(c, fl) ==
    [flash |-> flash_range_erase(fl, c.flashSettingsOffset,
                                 c.flashSettingsSize),
     ctx |-> [c EXCEPT !.count = 0],
     freed |-> Released(c),
     ret |-> 0]

settings_erase(c, fl) ==
    [flash |-> flash_range_erase(fl, c.flashSettingsOffset,
                                 c.flashSettingsSize),
     ctx |-> [c EXCEPT !.entries = NULL, !.count = 0],
     freed |-> Released(c),
     ret |-> 0]

(***************************************************************************)
(* settings_find_entry and the put functions (settings.c:710-784).         *)
(***************************************************************************)
\* the index (from 1) of the entry settings_find_entry returns, 0 for NULL
settings_find_entry(c, key) ==
    IF checkKeyFormat(key) # 0 THEN 0
    ELSE FirstMatch(c.entries, c.count, key)

\* an update that appends an entry for a key it does not find
settingsUpdateOrAdd(c, key, dataType, value) ==
    IF checkKeyFormat(key) # 0 THEN [ctx |-> c, ret |-> -1]
    ELSE IF checkTypeFormat(dataType) # 0 THEN [ctx |-> c, ret |-> -1]
    ELSE LET i == FirstMatch(c.entries, c.count, key)
             e == Entry(key, dataType,
                        strncpyTerminated(value, SETTINGS_MAX_VALUE_LENGTH))
         IN  IF i = 0
             THEN [ctx |-> [c EXCEPT
                              !.entries = Store(c.entries, c.count + 1, e),
                              !.count = c.count + 1],
                   ret |-> 0]
             ELSE [ctx |-> [c EXCEPT !.entries = Store(c.entries, i, e)],
                   ret |-> 0]

\* an update that swaps the updated entry with the last live entry
settingsUpdateAndMove(c, key, dataType, value) ==
    IF checkKeyFormat(key) # 0 THEN [ctx |-> c, ret |-> -1]
    ELSE IF checkTypeFormat(dataType) # 0 THEN [ctx |-> c, ret |-> -1]
    ELSE LET i == FirstMatch(c.entries, c.count, key)
             e == Entry(key, dataType,
                        strncpyTerminated(value, SETTINGS_MAX_VALUE_LENGTH))
         IN  IF i = 0 THEN [ctx |-> c, ret |-> -1]
             ELSE [ctx |-> [c EXCEPT
                              !.entries =
                                  Store(Store(c.entries, i,
                                              EntryAt(c.entries, c.count)),
                                        c.count, e)],
                   ret |-> 0]

\* lines 731-757: update the first live entry with the key
settingsUpdateEntry(c, key, dataType, value) ==
    IF checkKeyFormat(key) # 0 THEN [ctx |-> c, ret |-> -1]
    ELSE IF checkTypeFormat(dataType) # 0 THEN [ctx |-> c, ret |-> -1]
    ELSE LET i == FirstMatch(c.entries, c.count, key)
         IN  IF i = 0 THEN [ctx |-> c, ret |-> -1]
             ELSE [ctx |-> [c EXCEPT
                              !.entries =
                                  Store(c.entries, i,
                                        [EntryAt(c.entries, i) EXCEPT
                                           !.dataType = dataType,
                                           !.value = strncpyTerminated(
                                               value,
                                               SETTINGS_MAX_VALUE_LENGTH)])],
                   ret |-> 0]

settings_put_bool(c, key, value) ==
    settingsUpdateEntry(c, key, SETTINGS_TYPE_BOOL,
                        IF value THEN <<"t", "r", "u", "e">>
                        ELSE <<"f", "a", "l", "s", "e">>)

\* a const char *: NULL, or a pointer to the text
NullString == [null |-> TRUE, text |-> <<>>]

String(text) == [null |-> FALSE, text |-> text]

settings_put_string(c, key, value) ==
    IF value.null THEN [ctx |-> c, ret |-> -1]
    ELSE settingsUpdateEntry(c, key, SETTINGS_TYPE_STRING,
                             strncpyTerminated(value.text,
                                               SETTINGS_MAX_VALUE_LENGTH))

settings_put_integer(c, key, value) ==
    settingsUpdateEntry(c, key, SETTINGS_TYPE_INT,
                        Take(IntText(value), SETTINGS_MAX_VALUE_LENGTH - 1))

(***************************************************************************)
(* settings_print (settings.c:789-848): the text written to the buffer.    *)
(***************************************************************************)
\* line 793
PrintBufferSize == 2048

\* lines 813-827
TypeStr(dataType) ==
    IF dataType = SETTINGS_TYPE_INT THEN <<"I", "N", "T">>
    ELSE IF dataType = SETTINGS_TYPE_STRING THEN <<"S", "T", "R">>
    ELSE IF dataType = SETTINGS_TYPE_BOOL THEN <<"B", "O", "O", "L">>
    ELSE <<"U", "N", "K">>

\* lines 830-832: "%s (%s): %s\n"
PrintLine(e) ==
    e.key \o <<" ", "(">> \o TypeStr(e.dataType) \o <<")", ":", " ">>
          \o e.value \o <<"\n">>

RECURSIVE PrintLoop(_, _, _, _)
\* lines 812-836: the for loop from entry i (from 1), out written so far
PrintLoop(c, i, out, remaining) ==
    IF i > c.count \/ remaining <= 0 THEN out
    ELSE LET line == PrintLine(EntryAt(c.entries, i))
         IN  PrintLoop(c, i + 1, out \o Take(line, remaining - 1),
                       IF Len(line) < remaining THEN remaining - Len(line)
                       ELSE 0)

settings_print(c) == PrintLoop(c, 1, <<>>, PrintBufferSize)

(***************************************************************************)
(* Inputs of the model: keys, default tables, headers, region geometry,    *)
(* heap and flash contents, and the arguments of the put functions.        *)
(***************************************************************************)
\* the number of successful put calls in one behaviour
MaxPuts == 2

KeyA == <<"A", "1">>

KeyB == <<"B", "_">>

KeyC == <<"C">>

EmptyKey == <<>>

LowerKey == <<"a", "1">>

PunctKey == <<"A", "-">>

BadKeys == {EmptyKey, LowerKey, PunctKey}

\* the keys given to the put functions and to settings_find_entry
Keys == {KeyA, KeyB, KeyC, SETTINGS_MAGICVERSION_KEY} \cup BadKeys

TextTrue == <<"t", "r", "u", "e">>

TextFalse == <<"f", "a", "l", "s", "e">>

\* the default tables: the first two settings of the README's example; a
\* table with a malformed key and with one key twice
Defaults1 == <<Entry(KeyA, SETTINGS_TYPE_STRING, <<"x">>),
               Entry(KeyB, SETTINGS_TYPE_BOOL, TextFalse)>>

Defaults2 == <<Entry(LowerKey, SETTINGS_TYPE_INT, <<"1">>),
               Entry(KeyA, SETTINGS_TYPE_STRING, <<"x">>),
               Entry(KeyA, SETTINGS_TYPE_INT, <<"3">>)>>

\* the settings region: the flash page after the firmware
Region == [offset |-> SETTINGS_FLASH_PAGE_SIZE,
           size |-> SETTINGS_FLASH_PAGE_SIZE]

\* a default list with as many entries as the region has records: keys K01,
\* K02, .., all well-formed and distinct
FullKey(i) ==
    <<"K", DigitChars[(i \div SETTINGS_BASE_10) + 1],
           DigitChars[(i % SETTINGS_BASE_10) + 1]>>

DefaultsFull ==
    [i \in 1..MaxEntries(Region.size) |->
        Entry(FullKey(i), SETTINGS_TYPE_INT, <<"0">>)]

\* (magic, version) pairs: the README's 0x1234 / 0x0001, and 0 / 0
Header1 == [magic |-> 4660, version |-> 1]

Header0 == [magic |-> 0, version |-> 0]

\* A firmware build fixes the default table, magic and version it gives to
\* settings_init.  Firmware1 is the example application, Firmware2 an
\* update of it that changes the header; Firmware3 is an application with
\* a defective default table; Firmware4 is an application whose default
\* list fills the region.
Firmware(defaults, hdr) ==
    [defaults |-> defaults, magic |-> hdr.magic, version |-> hdr.version]

Firmware1 == Firmware(Defaults1, Header1)

Firmware2 == Firmware(Defaults1, Header0)

Firmware3 == Firmware(Defaults2, Header1)

Firmware4 == Firmware(DefaultsFull, Header1)

InitialFirmwares == {Firmware1, Firmware3, Firmware4}

\* the builds that may replace build f
Updates(f) == IF f = Firmware1 THEN {Firmware2} ELSE {}

\* flash of two pages: the firmware at offset 0, the settings region after it
FlashPages == 0..1

\* geometries that fail an assert of settings_init: a size and an offset
\* that are no multiple of the page size, a region too small for the table
BadGeometries == {[offset |-> SETTINGS_FLASH_PAGE_SIZE, size |-> 100],
                  [offset |-> 100, size |-> SETTINGS_FLASH_PAGE_SIZE],
                  [offset |-> SETTINGS_FLASH_PAGE_SIZE, size |-> 0]}

Geometries == {Region} \cup BadGeometries

\* what malloc may return in every slot of the entry buffer: zero bytes, or
\* the record a freed buffer held.  A slot that no default was stored in is
\* read only when the default list is longer than the table built from it
\* (Firmware3), or longer than the list of the build that saved the region
\* (no update here); for the other builds one content stands for all.
StaleEntry == Entry(KeyA, SETTINGS_TYPE_STRING, <<"o", "l", "d">>)

HeapContents(f) ==
    IF f = Firmware3 THEN {ZeroEntry, StaleEntry} ELSE {ZeroEntry}

\* a page that holds the records of prefix and is erased after them
PageOfRecords(prefix) == Array(EntriesPerPage, prefix, ErasedEntry)

FirmwarePage == Filled(EntriesPerPage, FirmwareEntry)

\* region contents at power-up: blank; a table saved by an older firmware
\* with a key (KeyC) that no default table has; a region with two records
\* of one key
StaleImage ==
    PageOfRecords(<<MagicEntry(HeaderCode(Header1.magic, Header1.version)),
                    Entry(KeyA, SETTINGS_TYPE_INT, <<"9">>),
                    Entry(KeyC, SETTINGS_TYPE_INT, <<"9">>),
                    Entry(KeyB, SETTINGS_TYPE_BOOL, TextTrue)>>)

TwiceImage ==
    PageOfRecords(<<MagicEntry(HeaderCode(Header1.magic, Header1.version)),
                    Entry(KeyA, SETTINGS_TYPE_BOOL, TextTrue),
                    Entry(KeyA, SETTINGS_TYPE_INT, <<"9">>)>>)

InitialImages == {ErasedPage, StaleImage, TwiceImage}

\* a string of SETTINGS_MAX_VALUE_LENGTH characters: one more than fits
LongText == Rep("z", SETTINGS_MAX_VALUE_LENGTH)

PutStrings == {NullString, String(LongText)}

PutIntegers == {-12}

(***************************************************************************)
(* State.                                                                  *)
(*   flash    the flash, page by page                                      *)
(*   ctx      the SettingsContext                                          *)
(*   fw       the firmware build that is running                           *)
(*   life     where the context is in its life cycle: "zero", "ready",     *)
(*            "nomem", "aborted", "deinit", "erased", and "erased again"   *)
(*            when settings_erase ran on an erased context                 *)
(*   pc       "idle" between calls, "returned" when a call has returned    *)
(*            and the application still holds its result                   *)
(*   last     the call that returned: name, key argument, return value,    *)
(*            and the value argument of a put that succeeded               *)
(*   prov     per flash page, what last wrote it: "firmware", "blank" and  *)
(*            "foreign" at power-up; "saved", with the firmware and the    *)
(*            table, for a save of an initialised context and "dumped"     *)
(*            for any other save; "wiped" for an erase of saved data and   *)
(*            "erased" for any other erase                                 *)
(*   nput     the number of successful puts so far                         *)
(*   unsaved  a put has succeeded and no save, erase or return of          *)
(*            settings_init has followed it                                *)
(***************************************************************************)
VARIABLES flash, ctx, fw, life, pc, last, prov, nput, unsaved

(***************************************************************************)
(* State of the two further specifications; Spec leaves it as it is.       *)
(*   peer     a second SettingsContext, over a region of its own (SpecTwo) *)
(*   irq      TRUE while interrupts are enabled on the core (SpecIrq)      *)
(*   ints     the local of settings_save and settings_erase that holds     *)
(*            what save_and_disable_interrupts returned (SpecIrq)          *)
(*   seen     what the interrupt handler found when it last read the       *)
(*            region (SpecIrq)                                             *)
(***************************************************************************)
VARIABLES peer, irq, ints, seen

others == <<peer, irq, ints, seen>>

\* what an interrupt handler that reads the region reports: the statement
\* the program was at, whether that is inside a critical section, and
\* whether the region was erased
Seen(at, critical, blank) == [at |-> at, critical |-> critical, blank |-> blank]

NotSeen == Seen("never", FALSE, FALSE)

vars == <<flash, ctx, fw, life, pc, last, prov, nput, unsaved, others>>

\* the value argument of a put: the bool, the int or the string given
Arg(b, n, s) == [b |-> b, n |-> n, s |-> s]

NoArg == Arg(FALSE, 0, NullString)

Call(op, key, arg, ret) == [op |-> op, key |-> key, arg |-> arg, ret |-> ret]

NoCall == Call("none", <<>>, NoArg, 0)

Prov(kind, f, table) == [kind |-> kind, fw |-> f, table |-> table]

Init ==
    /\ \E img \in InitialImages :
          /\ flash = [p \in FlashPages |->
                        IF p = 0 THEN FirmwarePage ELSE img]
          /\ prov = [p \in FlashPages |->
                        IF p = 0 THEN Prov("firmware", Firmware1, <<>>)
                        ELSE IF img = ErasedPage
                             THEN Prov("blank", Firmware1, <<>>)
                             ELSE Prov("foreign", Firmware1, <<>>)]
    /\ fw \in InitialFirmwares
    /\ ctx = ZeroContext
    /\ life = "zero"
    /\ pc = "idle"
    /\ last = NoCall
    /\ nput = 0
    /\ unsaved = FALSE
    /\ peer = ZeroContext
    /\ irq = TRUE
    /\ ints = TRUE
    /\ seen = NotSeen

\* the application is between two calls
Idle == pc = "idle"

Return(op, key, ret) ==
    /\ pc' = "returned"
    /\ last' = Call(op, key, NoArg, ret)

(***************************************************************************)
(* settings_init.                                                          *)
(***************************************************************************)
InitCall(geo, heap) ==
    /\ Idle
    /\ InitAsserts(Len(fw.defaults), geo.offset, geo.size)
    /\ LET r == settings_init(ctx, flash, fw.defaults, geo.offset, geo.size,
                              fw.magic, fw.version, heap)
       IN  /\ ctx' = r.ctx
           /\ Return("init", <<>>, r.ret)
    /\ life' = "ready"
    /\ UNCHANGED <<flash, fw, prov, nput, unsaved>>
    /\ UNCHANGED others

\* settingsLoadDefaultEntries stores a record past the end of the entry
\* buffer (line 460) when the default list and the sentinel together exceed
\* the buffer.  The behaviour is undefined: the store lands in the heap
\* behind the buffer, where the augmented default array and the allocator's
\* bookkeeping are.  Either the program goes on (InitCall: the record is not
\* in the buffer) or the corrupted heap stops it.
Overflows(geo) ==
    settingsLoadDefaultEntries(
        NULL, DefaultEntriesWithMagic(HeaderCode(fw.magic, fw.version),
                                      fw.defaults),
        Len(fw.defaults) + 1).count > MaxEntries(geo.size)

InitOverflow(geo, heap) ==
    /\ Idle
    /\ InitAsserts(Len(fw.defaults), geo.offset, geo.size)
    /\ Overflows(geo)
    /\ ctx' = settings_init(ctx, flash, fw.defaults, geo.offset, geo.size,
                            fw.magic, fw.version, heap).ctx
    /\ life' = "aborted"
    /\ pc' = "stopped"
    /\ last' = Call("init", <<>>, NoArg, 0)
    /\ UNCHANGED <<flash, fw, prov, nput, unsaved>>
    /\ UNCHANGED others

\* an assert of lines 581-594 fails: the fields assigned before it keep
\* their new values and the process stops
InitAbort(geo) ==
    /\ Idle
    /\ ~InitAsserts(Len(fw.defaults), geo.offset, geo.size)
    /\ ctx' = IF geo.size % SETTINGS_FLASH_PAGE_SIZE # 0 THEN ctx
              ELSE IF geo.offset % SETTINGS_FLASH_PAGE_SIZE # 0
                   THEN [ctx EXCEPT !.flashSettingsSize = geo.size]
                   ELSE [ctx EXCEPT !.flashSettingsSize = geo.size,
                                    !.flashSettingsOffset = geo.offset]
    /\ life' = "aborted"
    /\ pc' = "stopped"
    /\ last' = Call("init", <<>>, NoArg, 0)
    /\ UNCHANGED <<flash, fw, prov, nput, unsaved>>
    /\ UNCHANGED others

\* malloc of the entry buffer fails (lines 598-603)
InitNoMemory(geo) ==
    /\ Idle
    /\ InitAsserts(Len(fw.defaults), geo.offset, geo.size)
    /\ LET r == settings_init_nomem(ctx, geo.offset, geo.size)
       IN  /\ ctx' = r.ctx
           /\ Return("init", <<>>, r.ret)
    /\ life' = "nomem"
    /\ UNCHANGED <<flash, fw, prov, nput, unsaved>>
    /\ UNCHANGED others

\* malloc of the augmented default array fails (lines 613-619)
InitNoMemory2(geo, heap) ==
    /\ Idle
    /\ InitAsserts(Len(fw.defaults), geo.offset, geo.size)
    /\ LET r == settings_init_nomem2(ctx, geo.offset, geo.size, fw.magic,
                                     fw.version, heap)
       IN  /\ ctx' = r.ctx
           /\ Return("init", <<>>, r.ret)
    /\ life' = "nomem"
    /\ UNCHANGED <<flash, fw, prov, nput, unsaved>>
    /\ UNCHANGED others

(***************************************************************************)
(* settings_deinit, settings_save, settings_erase.                         *)
(***************************************************************************)
Deinit ==
    /\ Idle
    /\ LET r == settings_deinit(ctx)
       IN  /\ ctx' = r.ctx
           /\ Return("deinit", <<>>, r.ret)
    /\ life' = "deinit"
    /\ UNCHANGED <<flash, fw, prov, nput, unsaved>>
    /\ UNCHANGED others

\* the pages a flash call of the context reaches
CtxPages == PagesOf(flash, ctx.flashSettingsOffset, ctx.flashSettingsSize)

\* the code runs in place from flash page 0: once that page is erased the
\* program cannot go on
Stops(pages) == IF 0 \in pages THEN "stopped" ELSE "returned"

Save(disable_interrupts) ==
    /\ Idle
    /\ LET r == settings_save(ctx, flash, disable_interrupts)
       IN  /\ flash' = r.flash
           /\ last' = Call("save", <<>>, NoArg, r.ret)
           /\ pc' = IF r.ret = 0 THEN Stops(CtxPages) ELSE "returned"
           /\ prov' = IF r.ret # 0 THEN prov
                      ELSE [p \in FlashPages |->
                              IF p \in CtxPages
                              THEN IF life = "ready"
                                   THEN Prov("saved", fw, Table(ctx))
                                   ELSE Prov("dumped", Firmware1, <<>>)
                              ELSE prov[p]]
           /\ unsaved' = IF r.ret = 0 THEN FALSE ELSE unsaved
    /\ UNCHANGED <<ctx, fw, life, nput>>
    /\ UNCHANGED others

\* settings_erase was the last call that changed the context
Erased == life \in {"erased", "erased again"}

Erase ==
    /\ Idle
    /\ LET r == settings_erase(ctx, flash)
       IN  /\ flash' = r.flash
           /\ ctx' = r.ctx
           /\ last' = Call("erase", <<>>, NoArg, r.ret)
    /\ pc' = Stops(CtxPages)
    /\ prov' = [p \in FlashPages |->
                  IF p \in CtxPages
                  THEN Prov(IF prov[p].kind = "saved" THEN "wiped"
                            ELSE "erased", Firmware1, <<>>)
                  ELSE prov[p]]
    /\ life' = IF Erased THEN "erased again" ELSE "erased"
    /\ unsaved' = FALSE
    /\ UNCHANGED <<fw, nput>>
    /\ UNCHANGED others

(***************************************************************************)
(* The put functions.  arg is the value argument as the caller gave it.    *)
(***************************************************************************)
Put(op, key, arg, r) ==
    /\ Idle
    /\ r.ret = 0 => nput < MaxPuts
    /\ ctx' = r.ctx
    /\ pc' = "returned"
    /\ last' = Call(op, key, IF r.ret = 0 THEN arg ELSE NoArg, r.ret)
    /\ nput' = IF r.ret = 0 THEN nput + 1 ELSE nput
    /\ unsaved' = (unsaved \/ r.ret = 0)
    /\ UNCHANGED <<flash, fw, life, prov>>
    /\ UNCHANGED others

PutBool(key, value) ==
    Put("put_bool", key, Arg(value, 0, NullString),
        settings_put_bool(ctx, key, value))

PutString(key, value) ==
    Put("put_string", key, Arg(FALSE, 0, value),
        settings_put_string(ctx, key, value))

PutInteger(key, value) ==
    Put("put_integer", key, Arg(FALSE, value, NullString),
        settings_put_integer(ctx, key, value))

(***************************************************************************)
(* The application goes on to its next call; a restart, with the same      *)
(* firmware or an update of it: RAM is lost, flash is kept.                *)
(***************************************************************************)
Resume ==
    /\ pc = "returned"
    /\ pc' = "idle"
    /\ unsaved' = (unsaved /\ last.op # "init")
    /\ last' = NoCall
    /\ UNCHANGED <<flash, ctx, fw, life, prov, nput>>
    /\ UNCHANGED others

Restart(f) ==
    /\ pc # "returned"
    /\ life # "zero" \/ f # fw
    /\ flash[0] = FirmwarePage
    /\ fw' = f
    /\ ctx' = ZeroContext
    /\ life' = "zero"
    /\ pc' = "idle"
    /\ last' = NoCall
    /\ UNCHANGED <<flash, prov, nput, unsaved>>
    /\ UNCHANGED others

Next ==
    \/ \E g \in Geometries :
          \/ \E heap \in HeapContents(fw) : InitCall(g, heap)
          \/ \E heap \in HeapContents(fw) : InitNoMemory2(g, heap)
          \/ \E heap \in HeapContents(fw) : InitOverflow(g, heap)
          \/ InitAbort(g)
          \/ InitNoMemory(g)
    \/ Deinit
    \/ \E di \in BOOLEAN : Save(di)
    \/ Erase
    \/ \E k \in Keys :
          \/ \E b \in BOOLEAN : PutBool(k, b)
          \/ \E s \in PutStrings : PutString(k, s)
          \/ \E n \in PutIntegers : PutInteger(k, n)
    \/ Resume
    \/ \E f \in {fw} \cup Updates(fw) : Restart(f)

Spec == Init /\ [][Next]_vars

(***************************************************************************)
(* SpecTwo: one application with two contexts, ctx over Region and peer    *)
(* over Region2, the page after it.  Every call runs to its end before the *)
(* next one starts (one thread of execution); the calls on the two         *)
(* contexts come in any order.  The first context is given the defaults    *)
(* and header of Firmware1, the second those of Firmware2.                 *)
(***************************************************************************)
Region2 == [offset |-> Region.offset + Region.size, size |-> Region.size]

TwoPages == 0..2

Contexts == {1, 2}

RegionOf(who) == IF who = 1 THEN Region ELSE Region2

BuildOf(who) == IF who = 1 THEN Firmware1 ELSE Firmware2

\* the context a call is given, and the assignment through that pointer
The(who) == IF who = 1 THEN ctx ELSE peer

Becomes(who, c) ==
    IF who = 1 THEN ctx' = c /\ peer' = peer ELSE peer' = c /\ ctx' = ctx

\* the number of successful puts on the two contexts together
MaxTwoPuts == 1

\* a key of the defaults, a new key and a key the put functions reject
TwoKeys == {KeyA, KeyC, LowerKey}

InitTwo ==
    /\ flash = [p \in TwoPages |-> IF p = 0 THEN FirmwarePage ELSE ErasedPage]
    /\ prov = [p \in FlashPages |-> Prov("blank", Firmware1, <<>>)]
    /\ fw = Firmware1
    /\ ctx = ZeroContext
    /\ peer = ZeroContext
    /\ life = "zero"
    /\ pc = "idle"
    /\ last = NoCall
    /\ nput = 0
    /\ unsaved = FALSE
    /\ irq = TRUE
    /\ ints = TRUE
    /\ seen = NotSeen

\* what no call of SpecTwo changes
TwoFrame == UNCHANGED <<fw, life, prov, unsaved, irq, ints, seen>>

TwoInit(who) ==
    /\ Idle
    /\ LET r == settings_init(The(who), flash, BuildOf(who).defaults,
                              RegionOf(who).offset, RegionOf(who).size,
                              BuildOf(who).magic, BuildOf(who).version,
                              ZeroEntry)
       IN  /\ Becomes(who, r.ctx)
           /\ last' = Call("init", <<>>, NoArg, r.ret)
    /\ UNCHANGED <<flash, pc, nput>>
    /\ TwoFrame

TwoDeinit(who) ==
    /\ Idle
    /\ LET r == settings_deinit(The(who))
       IN  /\ Becomes(who, r.ctx)
           /\ last' = Call("deinit", <<>>, NoArg, r.ret)
    /\ UNCHANGED <<flash, pc, nput>>
    /\ TwoFrame

\* a flash call that reaches the firmware's page stops the program; any
\* other call returns to the application, which goes on
TwoStops(pages) == IF 0 \in pages THEN "stopped" ELSE "idle"

\* the pages a flash call of context who reaches
PagesOfContext(who) ==
    PagesOf(flash, The(who).flashSettingsOffset, The(who).flashSettingsSize)

TwoSave(who, disable_interrupts) ==
    /\ Idle
    /\ LET r == settings_save(The(who), flash, disable_interrupts)
       IN  /\ flash' = r.flash
           /\ last' = Call("save", <<>>, NoArg, r.ret)
           /\ pc' = IF r.ret = 0 THEN TwoStops(PagesOfContext(who)) ELSE pc
    /\ UNCHANGED <<ctx, peer, nput>>
    /\ TwoFrame

TwoErase(who) ==
    /\ Idle
    /\ LET r == settings_erase(The(who), flash)
       IN  /\ flash' = r.flash
           /\ Becomes(who, r.ctx)
           /\ last' = Call("erase", <<>>, NoArg, r.ret)
    /\ pc' = TwoStops(PagesOfContext(who))
    /\ UNCHANGED nput
    /\ TwoFrame

TwoFind(who, key) ==
    /\ Idle
    /\ last' = Call("find", key, NoArg, settings_find_entry(The(who), key))
    /\ UNCHANGED <<flash, ctx, peer, pc, nput>>
    /\ TwoFrame

TwoPrint(who) ==
    /\ Idle
    /\ last' = Call("print", <<>>,
                    Arg(FALSE, 0, String(settings_print(The(who)))), 0)
    /\ UNCHANGED <<flash, ctx, peer, pc, nput>>
    /\ TwoFrame

TwoPut(who, op, key, r) ==
    /\ Idle
    /\ r.ret = 0 => nput < MaxTwoPuts
    /\ Becomes(who, r.ctx)
    /\ last' = Call(op, key, NoArg, r.ret)
    /\ nput' = IF r.ret = 0 THEN nput + 1 ELSE nput
    /\ UNCHANGED <<flash, pc>>
    /\ TwoFrame

TwoPutBool(who, key, value) ==
    TwoPut(who, "put_bool", key, settings_put_bool(The(who), key, value))

TwoPutString(who, key, value) ==
    TwoPut(who, "put_string", key, settings_put_string(The(who), key, value))

TwoPutInteger(who, key, value) ==
    TwoPut(who, "put_integer", key, settings_put_integer(The(who), key, value))

\* a call on context who
OnContext(who) ==
    \/ TwoInit(who)
    \/ TwoDeinit(who)
    \/ \E di \in BOOLEAN : TwoSave(who, di)
    \/ TwoErase(who)
    \/ TwoPrint(who)
    \/ \E k \in TwoKeys :
          \/ TwoFind(who, k)
          \/ TwoPutBool(who, k, TRUE)
          \/ TwoPutString(who, k, String(TextTrue))
          \/ \E n \in PutIntegers : TwoPutInteger(who, k, n)

NextTwo == \E who \in Contexts : OnContext(who)

SpecTwo == InitTwo /\ [][NextTwo]_vars

(***************************************************************************)
(* SpecIrq: settings_save and settings_erase statement by statement, with  *)
(* an interrupt handler that reads the region whenever interrupts are      *)
(* enabled.  One core: the handler runs to its end between two statements  *)
(* of the program.  pc is the statement the program is at: "idle" outside  *)
(* save and erase, "save_erase", "save_program", "save_restore" before     *)
(* lines 680, 681 and 685, "erase_erase", "erase_restore", "erase_free"    *)
(* before lines 697, 698 and 701.  irq is whether interrupts are enabled,  *)
(* ints the local variable ints of the call.  prov is what wrote the       *)
(* region last; "cut" is a region that settings_save has erased and not    *)
(* programmed, with the table the region held before.                      *)
(***************************************************************************)
\* save_and_disable_interrupts that leaves interrupts as they are
save_and_keep_interrupts(status) == [ints |-> status, irq |-> status]

\* save_and_disable_interrupts(): returns the interrupt state and disables
save_and_disable_interrupts(status) == [ints |-> status, irq |-> FALSE]

\* a restore that enables interrupts whatever the token is
enable_interrupts(token) == TRUE

\* restore_interrupts(ints): the interrupt state after it
restore_interrupts(token) == token

InitIrq ==
    /\ flash = [p \in FlashPages |-> IF p = 0 THEN FirmwarePage ELSE ErasedPage]
    /\ prov = [p \in FlashPages |-> Prov("blank", Firmware1, <<>>)]
    /\ fw \in {Firmware1, Firmware2, Firmware4}
    /\ ctx = ZeroContext
    /\ peer = ZeroContext
    /\ life = "zero"
    /\ pc = "idle"
    /\ last = NoCall
    /\ nput = 0
    /\ unsaved = FALSE
    /\ irq = TRUE
    /\ ints = FALSE
    /\ seen = NotSeen

\* what no step of SpecIrq changes
IrqFrame == UNCHANGED <<fw, life, unsaved, peer>>

\* the disable_interrupts argument of the save that is running
Masking == last.arg.b

IrqInit ==
    /\ Idle
    /\ LET r == settings_init(ctx, flash, fw.defaults, Region.offset,
                              Region.size, fw.magic, fw.version, ZeroEntry)
       IN  /\ ctx' = r.ctx
           /\ last' = Call("init", <<>>, NoArg, r.ret)
    /\ UNCHANGED <<prov, flash, pc, nput, irq, ints, seen>>
    /\ IrqFrame

IrqPut(key, value) ==
    /\ Idle
    /\ nput < MaxPuts
    /\ LET r == settings_put_bool(ctx, key, value)
       IN  /\ r.ret = 0
           /\ ctx' = r.ctx
           /\ last' = Call("put_bool", key, Arg(value, 0, NullString), r.ret)
    /\ nput' = nput + 1
    /\ UNCHANGED <<prov, flash, pc, irq, ints, seen>>
    /\ IrqFrame

\* the application disables or enables interrupts between two calls
IrqSet(enabled) ==
    /\ Idle
    /\ irq # enabled
    /\ irq' = enabled
    /\ UNCHANGED <<prov, flash, ctx, pc, last, nput, ints, seen>>
    /\ IrqFrame

\* lines 661-678
SaveEnter(disable_interrupts) ==
    /\ Idle
    /\ IF ExceedsRegion(ctx)
       THEN /\ last' = Call("save", <<>>,
                            Arg(disable_interrupts, 0, NullString), -1)
            /\ UNCHANGED <<pc, irq, ints>>
       ELSE /\ last' = Call("save", <<>>,
                            Arg(disable_interrupts, 0, NullString), 0)
            /\ pc' = "save_erase"
            /\ IF disable_interrupts
               THEN /\ ints' = save_and_disable_interrupts(irq).ints
                    /\ irq' = save_and_disable_interrupts(irq).irq
               ELSE /\ ints' = FALSE
                    /\ irq' = irq
    /\ UNCHANGED <<prov, flash, ctx, nput, seen>>
    /\ IrqFrame

\* line 680
SaveErase ==
    /\ pc = "save_erase"
    /\ flash' = flash_range_erase(flash, ctx.flashSettingsOffset,
                                  ctx.flashSettingsSize)
    /\ pc' = "save_program"
    /\ prov' = [p \in FlashPages |->
                  IF p \in CtxPages
                  THEN Prov("cut", prov[p].fw, prov[p].table)
                  ELSE prov[p]]
    /\ UNCHANGED <<ctx, last, nput, irq, ints, seen>>
    /\ IrqFrame

\* lines 681-683
SaveProgram ==
    /\ pc = "save_program"
    /\ flash' = flash_range_program(flash, ctx.flashSettingsOffset,
                                    ctx.entries, ctx.flashSettingsSize)
    /\ pc' = "save_restore"
    /\ prov' = [p \in FlashPages |->
                  IF p \in CtxPages THEN Prov("saved", fw, Table(ctx))
                  ELSE prov[p]]
    /\ UNCHANGED <<ctx, last, nput, irq, ints, seen>>
    /\ IrqFrame

\* lines 685-689
SaveLeave ==
    /\ pc = "save_restore"
    /\ irq' = IF Masking THEN restore_interrupts(ints) ELSE irq
    /\ pc' = "idle"
    /\ UNCHANGED <<prov, flash, ctx, last, nput, ints, seen>>
    /\ IrqFrame

\* lines 692-696
EraseEnter ==
    /\ Idle
    /\ last' = Call("erase", <<>>, NoArg, 0)
    /\ ints' = save_and_disable_interrupts(irq).ints
    /\ irq' = save_and_disable_interrupts(irq).irq
    /\ pc' = "erase_erase"
    /\ UNCHANGED <<prov, flash, ctx, nput, seen>>
    /\ IrqFrame

\* line 697
EraseErase ==
    /\ pc = "erase_erase"
    /\ flash' = flash_range_erase(flash, ctx.flashSettingsOffset,
                                  ctx.flashSettingsSize)
    /\ pc' = "erase_restore"
    /\ prov' = [p \in FlashPages |->
                  IF p \in CtxPages THEN Prov("erased", Firmware1, <<>>)
                  ELSE prov[p]]
    /\ UNCHANGED <<ctx, last, nput, irq, ints, seen>>
    /\ IrqFrame

\* line 698
EraseLeave ==
    /\ pc = "erase_restore"
    /\ irq' = restore_interrupts(ints)
    /\ pc' = "erase_free"
    /\ UNCHANGED <<prov, flash, ctx, last, nput, ints, seen>>
    /\ IrqFrame

\* lines 700-707
EraseFree ==
    /\ pc = "erase_free"
    /\ ctx' = settings_erase(ctx, flash).ctx
    /\ pc' = "idle"
    /\ UNCHANGED <<prov, flash, last, nput, irq, ints, seen>>
    /\ IrqFrame

\* the program is between entering and leaving a critical section
InCriticalSection ==
    \/ pc \in {"save_erase", "save_program", "save_restore"} /\ Masking
    \/ pc \in {"erase_erase", "erase_restore"}

\* an interrupt handler that reads the region
Handler ==
    /\ irq
    /\ seen' = Seen(pc, InCriticalSection,
                    flash[Region.offset \div SETTINGS_FLASH_PAGE_SIZE]
                        = ErasedPage)
    /\ UNCHANGED <<prov, flash, ctx, pc, last, nput, irq, ints>>
    /\ IrqFrame

\* a reset or a loss of power inside settings_save or settings_erase: RAM
\* is lost, the flash is as the statements executed so far left it, and
\* the program starts again with interrupts enabled
Reset ==
    /\ pc # "idle"
    /\ ctx' = ZeroContext
    /\ pc' = "idle"
    /\ last' = NoCall
    /\ irq' = TRUE
    /\ ints' = FALSE
    /\ UNCHANGED <<flash, prov, nput, seen>>
    /\ IrqFrame

NextIrq ==
    \/ IrqInit
    \/ \E v \in BOOLEAN : IrqPut(KeyB, v)
    \/ \E e \in BOOLEAN : IrqSet(e)
    \/ \E di \in BOOLEAN : SaveEnter(di)
    \/ SaveErase
    \/ SaveProgram
    \/ SaveLeave
    \/ EraseEnter
    \/ EraseErase
    \/ EraseLeave
    \/ EraseFree
    \/ Handler
    \/ Reset

SpecIrq == InitIrq /\ [][NextIrq]_vars

(***************************************************************************)
(* SpecPrint: one context and settings_print in its two buffer modes, on   *)
(* the example's table and on the largest table the region takes.          *)
(***************************************************************************)
\* a default list that fills the entry buffer together with the sentinel,
\* every value as long as the value field takes
DefaultsLong ==
    [i \in 1..(MaxEntries(Region.size) - 1) |->
        Entry(FullKey(i), SETTINGS_TYPE_STRING,
              Rep("z", SETTINGS_MAX_VALUE_LENGTH - 1))]

Firmware5 == Firmware(DefaultsLong, Header1)

\* the buffer argument of settings_print: a caller's buffer of
\* PrintBufferSize bytes or more, or NULL; with NULL, malloc returns a
\* buffer or fails
PrintModes == {"caller", "internal", "nomem"}

\* the text settings_print leaves in the caller's buffer, or hands to
\* DPRINTFRAW; nothing when malloc fails (lines 796-802)
PrintOutput(c, mode) ==
    IF mode = "nomem" THEN NullString ELSE String(settings_print(c))

InitPrint ==
    /\ flash \in {[p \in FlashPages |-> IF p = 0 THEN FirmwarePage ELSE img] :
                    img \in {ErasedPage, StaleImage}}
    /\ prov = [p \in FlashPages |-> Prov("blank", Firmware1, <<>>)]
    /\ fw \in {Firmware1, Firmware5}
    /\ ctx = ZeroContext
    /\ peer = ZeroContext
    /\ life = "zero"
    /\ pc = "idle"
    /\ last = NoCall
    /\ nput = 0
    /\ unsaved = FALSE
    /\ irq = TRUE
    /\ ints = TRUE
    /\ seen = NotSeen

\* what no call of SpecPrint changes
PrintFrame == UNCHANGED <<fw, life, prov, unsaved, pc, others>>

PrintInit ==
    /\ Idle
    /\ LET r == settings_init(ctx, flash, fw.defaults, Region.offset,
                              Region.size, fw.magic, fw.version, ZeroEntry)
       IN  /\ ctx' = r.ctx
           /\ last' = Call("init", <<>>, NoArg, r.ret)
    /\ UNCHANGED <<flash, nput>>
    /\ PrintFrame

PrintPut(key, value) ==
    /\ Idle
    /\ nput < MaxPuts
    /\ LET r == settings_put_string(ctx, key, value)
       IN  /\ ctx' = r.ctx
           /\ last' = Call("put_string", key, NoArg, r.ret)
    /\ nput' = nput + 1
    /\ UNCHANGED flash
    /\ PrintFrame

PrintSave ==
    /\ Idle
    /\ ctx.flashSettingsOffset = Region.offset
    /\ LET r == settings_save(ctx, flash, TRUE)
       IN  /\ flash' = r.flash
           /\ last' = Call("save", <<>>, NoArg, r.ret)
    /\ UNCHANGED <<ctx, nput>>
    /\ PrintFrame

PrintErase ==
    /\ Idle
    /\ ctx.flashSettingsOffset = Region.offset
    /\ LET r == settings_erase(ctx, flash)
       IN  /\ flash' = r.flash
           /\ ctx' = r.ctx
           /\ last' = Call("erase", <<>>, NoArg, r.ret)
    /\ UNCHANGED nput
    /\ PrintFrame

PrintDeinit ==
    /\ Idle
    /\ LET r == settings_deinit(ctx)
       IN  /\ ctx' = r.ctx
           /\ last' = Call("deinit", <<>>, NoArg, r.ret)
    /\ UNCHANGED <<flash, nput>>
    /\ PrintFrame

\* settings_print(ctx, buffer): last holds the mode and the text
PrintCall(mode) ==
    /\ Idle
    /\ last' = Call("print", <<mode>>,
                    Arg(FALSE, 0, PrintOutput(ctx, mode)), 0)
    /\ UNCHANGED <<flash, ctx, nput>>
    /\ PrintFrame

NextPrint ==
    \/ PrintInit
    \/ \E k \in {KeyA, FullKey(1)} :
          \E t \in {String(LongText), String(<<"y">>)} : PrintPut(k, t)
    \/ PrintSave
    \/ PrintErase
    \/ PrintDeinit
    \/ \E mode \in PrintModes : PrintCall(mode)

SpecPrint == InitPrint /\ [][NextPrint]_vars

(***************************************************************************)
(* The single-instance API (settings.c:5-320): the same functions over a   *)
(* static configData, flashSettingsSize and flashSettingsOffset, here the  *)
(* fields of one record.                                                   *)
(***************************************************************************)
\* lines 5-9: the statics before any call
StaticContext == Context(NULL, 0, U32(0, 0), SETTINGS_DEFAULT_FLASH_SIZE, 0)

\* lines 51-69: the body of the for loop at index i (from 0) on state d;
\* an entry is stored at entries[i] and count is incremented
LoadDefaultStep_v1(d, i, entry) ==
    IF Len(entry.key) = 0 THEN [d EXCEPT !.ended = TRUE]
    ELSE IF checkTypeFormat(entry.dataType) # 0 THEN d
    ELSE IF checkKeyFormat(entry.key) # 0 THEN d
    ELSE [d EXCEPT !.entries = Store(d.entries, i + 1, entry),
                   !.count = d.count + 1]

RECURSIVE LoadDefaultLoop_v1(_, _, _, _)
\* lines 50-70: the for loop from index i (from 0) in state d
LoadDefaultLoop_v1(d, entries, i, numEntries) ==
    IF i >= numEntries \/ d.ended THEN d
    ELSE LoadDefaultLoop_v1(LoadDefaultStep_v1(d, i, entries[i + 1]), entries,
                            i + 1, numEntries)

\* lines 48-80: count goes on from the value it has
settingsLoadDefaultEntries_v1(buf, count, entries, numEntries) ==
    LET d == LoadDefaultLoop_v1([entries |-> buf, count |-> count,
                                 ended |-> FALSE], entries, 0, numEntries)
    IN  [entries |-> d.entries, count |-> d.count]

\* lines 84-154: the scan is the one of the context API, with
\* settings_find_entry for the search
settingsLoadAllEntries_v1(c, fl, entries, numEntries) ==
    LET d == settingsLoadDefaultEntries_v1(c.entries, c.count, entries,
                                           numEntries)
    IN  IF ~HeaderMatches(fl, c.flashSettingsOffset, c.magic)
        THEN [c EXCEPT !.entries = d.entries, !.count = d.count]
        ELSE [c EXCEPT
                !.entries = ScanLoop([entries |-> d.entries, ended |-> FALSE],
                                     d.count, fl, c.flashSettingsOffset, 0,
                                     numEntries).entries,
                !.count = d.count]

\* lines 156-212: a new buffer, count as it is, the count as return value
settings_init_v1(c, fl, defaultEntries, flashOffset, flashSize, magic, version, heap) ==
    LET code == HeaderCode(magic, version)
        c1   == Context(Filled(MaxEntries(flashSize), heap), c.count, code,
                        flashSize, flashOffset)
        r    == settingsLoadAllEntries_v1(
                    c1, fl, DefaultEntriesWithMagic(code, defaultEntries),
                    Len(defaultEntries) + 1)
    IN  [ctx |-> r, ret |-> r.count]

\* lines 220-233
settings_find_entry_v1(c, key) ==
    IF checkKeyFormat(key) # 0 THEN 0
    ELSE FirstMatch(c.entries, c.count, key)

\* lines 236-258: no test of the type
settingsUpdateEntry_v1(c, key, dataType, value) ==
    IF checkKeyFormat(key) # 0 THEN [ctx |-> c, ret |-> -1]
    ELSE LET i == FirstMatch(c.entries, c.count, key)
         IN  IF i = 0 THEN [ctx |-> c, ret |-> -1]
             ELSE [ctx |-> [c EXCEPT
                              !.entries =
                                  Store(c.entries, i,
                                        [EntryAt(c.entries, i) EXCEPT
                                           !.dataType = dataType,
                                           !.value = strncpyTerminated(
                                               value,
                                               SETTINGS_MAX_VALUE_LENGTH)])],
                   ret |-> 0]

\* lines 260-262
settings_put_bool_v1(c, key, value) ==
    settingsUpdateEntry_v1(c, key, SETTINGS_TYPE_BOOL,
                           IF value THEN <<"t", "r", "u", "e">>
                           ELSE <<"f", "a", "l", "s", "e">>)

\* lines 264-270, for a value that is no NULL pointer
settings_put_string_v1(c, key, value) ==
    settingsUpdateEntry_v1(c, key, SETTINGS_TYPE_STRING,
                           strncpyTerminated(value.text,
                                             SETTINGS_MAX_VALUE_LENGTH))

\* lines 272-278
settings_put_integer_v1(c, key, value) ==
    settingsUpdateEntry_v1(c, key, SETTINGS_TYPE_INT,
                           Take(IntText(value), SETTINGS_MAX_VALUE_LENGTH - 1))

\* lines 280-305
settings_save_v1(c, fl) ==
    IF c.count * SizeofEntry > c.flashSettingsSize
    THEN [flash |-> fl, ret |-> -1]
    ELSE [flash |-> flash_range_program(
                        flash_range_erase(fl, c.flashSettingsOffset,
                                          c.flashSettingsSize),
                        c.flashSettingsOffset, c.entries,
                        c.flashSettingsSize),
          ret |-> 0]

\* lines 307-320: memset clears entries, count and magic
settings_erase_v1(c, fl) ==
    [flash |-> flash_range_erase(fl, c.flashSettingsOffset,
                                 c.flashSettingsSize),
     ctx |-> [c EXCEPT !.entries = NULL, !.count = 0, !.magic = U32(0, 0)],
     ret |-> 0]

(***************************************************************************)
(* SpecGen: one sequence of calls given to both APIs.  ctx is the context  *)
(* of the context-taking API over Region, peer the statics of the          *)
(* single-instance API over Region2; both regions start with the same      *)
(* content.  Every call but the first settings_init is made after a        *)
(* settings_init.                                                          *)
(***************************************************************************)
\* settings_init is not called again once count has reached this value
MaxGenCount == 6

GenFirmwares == {Firmware1, Firmware3}

InitGen ==
    /\ \E img \in InitialImages :
          flash = [p \in TwoPages |-> IF p = 0 THEN FirmwarePage ELSE img]
    /\ prov = [p \in FlashPages |-> Prov("blank", Firmware1, <<>>)]
    /\ fw \in GenFirmwares
    /\ ctx = ZeroContext
    /\ peer = StaticContext
    /\ life = "zero"
    /\ pc = "idle"
    /\ last = NoCall
    /\ nput = 0
    /\ unsaved = FALSE
    /\ irq = TRUE
    /\ ints = TRUE
    /\ seen = NotSeen

\* what no call of SpecGen changes
GenFrame == UNCHANGED <<fw, prov, unsaved, pc, irq, ints, seen>>

\* settings_init has been called in both APIs
GenReady == life = "ready"

GenInit(heap) ==
    /\ peer.count < MaxGenCount
    /\ LET r == settings_init(ctx, flash, fw.defaults, Region.offset,
                              Region.size, fw.magic, fw.version, heap)
           q == settings_init_v1(peer, flash, fw.defaults, Region2.offset,
                                 Region2.size, fw.magic, fw.version, heap)
       IN  /\ ctx' = r.ctx
           /\ peer' = q.ctx
           /\ last' = Call("init", <<>>, NoArg, q.ret)
    /\ life' = "ready"
    /\ UNCHANGED <<flash, nput>>
    /\ GenFrame

GenPut(op, key, arg, r, q) ==
    /\ GenReady
    /\ nput < MaxPuts
    /\ ctx' = r.ctx
    /\ peer' = q.ctx
    /\ last' = Call(op, key, arg, q.ret)
    /\ nput' = nput + 1
    /\ UNCHANGED <<flash, life>>
    /\ GenFrame

GenPutBool(key, value) ==
    GenPut("put_bool", key, Arg(value, 0, NullString),
           settings_put_bool(ctx, key, value),
           settings_put_bool_v1(peer, key, value))

GenPutString(key, value) ==
    GenPut("put_string", key, Arg(FALSE, 0, value),
           settings_put_string(ctx, key, value),
           settings_put_string_v1(peer, key, value))

GenPutInteger(key, value) ==
    GenPut("put_integer", key, Arg(FALSE, value, NullString),
           settings_put_integer(ctx, key, value),
           settings_put_integer_v1(peer, key, value))

GenFind(key) ==
    /\ GenReady
    /\ last' = Call("find", key, NoArg, settings_find_entry_v1(peer, key))
    /\ UNCHANGED <<flash, ctx, peer, life, nput>>
    /\ GenFrame

GenSave ==
    /\ GenReady
    /\ LET r == settings_save(ctx, flash, TRUE)
           q == settings_save_v1(peer, r.flash)
       IN  /\ flash' = q.flash
           /\ last' = Call("save", <<>>, NoArg, q.ret)
    /\ UNCHANGED <<ctx, peer, life, nput>>
    /\ GenFrame

GenErase ==
    /\ GenReady
    /\ LET r == settings_erase(ctx, flash)
           q == settings_erase_v1(peer, r.flash)
       IN  /\ flash' = q.flash
           /\ ctx' = r.ctx
           /\ peer' = q.ctx
           /\ last' = Call("erase", <<>>, NoArg, q.ret)
    /\ UNCHANGED <<life, nput>>
    /\ GenFrame

NextGen ==
    \/ \E heap \in HeapContents(fw) : GenInit(heap)
    \/ \E k \in {KeyA, KeyB, LowerKey} :
          \/ GenPutBool(k, TRUE)
          \/ GenPutString(k, String(TextTrue))
          \/ \E n \in PutIntegers : GenPutInteger(k, n)
          \/ GenFind(k)
    \/ GenSave
    \/ GenErase

SpecGen == InitGen /\ [][NextGen]_vars

(***************************************************************************)
(* SpecLoad: settings_init on every default list and every region content  *)
(* of a bounded family: the load of the defaults and the scan of the       *)
(* region as functions of their inputs.                                    *)
(***************************************************************************)
\* the longest default list
MaxDefaults == 2

\* sequences over S of length n, and of length up to n
RECURSIVE ListsOfLength(_, _)
ListsOfLength(S, n) ==
    IF n = 0 THEN {<<>>}
    ELSE {<<e>> \o l : e \in S, l \in ListsOfLength(S, n - 1)}

ListsUpTo(S, n) == UNION {ListsOfLength(S, k) : k \in 0..n}

\* a record that neither ends the scan nor is skipped by the default load
WellFormedRecord(e) == checkKeyFormat(e.key) = 0 /\ checkTypeFormat(e.dataType) = 0

\* default entries: two well-formed ones, one with an empty key, one with a
\* malformed key, one with a type tag that is no SettingsDataType
UnknownType == SETTINGS_TYPE_BOOL + 1

DefaultChoices ==
    {Entry(KeyA, SETTINGS_TYPE_STRING, <<"x">>),
     Entry(KeyB, SETTINGS_TYPE_BOOL, TextFalse),
     Entry(EmptyKey, SETTINGS_TYPE_INT, <<"0">>),
     Entry(LowerKey, SETTINGS_TYPE_INT, <<"1">>),
     Entry(KeyC, UnknownType, <<"q">>)}

DefaultLists == ListsUpTo(DefaultChoices, MaxDefaults)

\* records of the region: well-formed ones with a key of the defaults and
\* with another key, one with an empty key, one with a malformed key, one
\* with an unknown type tag
RecordChoices ==
    {Entry(KeyA, SETTINGS_TYPE_INT, <<"9">>),
     Entry(KeyC, SETTINGS_TYPE_INT, <<"9">>),
     ZeroEntry,
     Entry(LowerKey, SETTINGS_TYPE_INT, <<"9">>),
     Entry(KeyA, UnknownType, <<"9">>)}

\* region contents: the header record, then as many records as the longest
\* default list has entries (one more than the scan reads for a shorter
\* list), then erased flash; under the header of another build the records
\* are well-formed
LoadImages ==
    {PageOfRecords(<<MagicEntry(HeaderCode(Header1.magic, Header1.version))>>
                   \o l) :
        l \in ListsOfLength(RecordChoices, MaxDefaults)}
    \cup
    {PageOfRecords(<<MagicEntry(HeaderCode(Header0.magic, Header0.version))>>
                   \o l) :
        l \in ListsOfLength({e \in RecordChoices : WellFormedRecord(e)},
                            MaxDefaults)}

InitLoad ==
    /\ \E img \in LoadImages \cup {ErasedPage} :
          flash = [p \in FlashPages |-> IF p = 0 THEN FirmwarePage ELSE img]
    /\ prov = [p \in FlashPages |-> Prov("foreign", Firmware1, <<>>)]
    /\ \E d \in DefaultLists : fw = Firmware(d, Header1)
    /\ ctx = ZeroContext
    /\ life = "zero"
    /\ pc = "idle"
    /\ last = NoCall
    /\ nput = 0
    /\ unsaved = FALSE
    /\ peer = ZeroContext
    /\ irq = TRUE
    /\ ints = TRUE
    /\ seen = NotSeen

NextLoad ==
    \/ InitCall(Region, ZeroEntry)
    \/ Resume

SpecLoad == InitLoad /\ [][NextLoad]_vars

(***************************************************************************)
(* Vocabulary of the properties.                                           *)
(***************************************************************************)
\* the flash page of the settings region
RegionPage == Region.offset \div SETTINGS_FLASH_PAGE_SIZE

PutOps == {"put_bool", "put_string", "put_integer"}

\* settings_init has just returned with an entry buffer
InitReturned == pc = "returned" /\ last.op = "init" /\ life = "ready"

\* a record with a well-formed key and a known type
WellFormed(e) == checkKeyFormat(e.key) = 0 /\ checkTypeFormat(e.dataType) = 0

\* the default list of build f has only well-formed records and no key twice
ValidDefaults(f) ==
    /\ \A i \in DOMAIN f.defaults : WellFormed(f.defaults[i])
    /\ \A i, j \in DOMAIN f.defaults :
          f.defaults[i].key = f.defaults[j].key => i = j

\* the default list of build f and the sentinel fit the entry buffer
FitsRegion(f) == Len(f.defaults) + 1 <= MaxEntries(Region.size)

\* a list up to its first record with an empty key
BeforeEmptyKey(entries) ==
    LET stops == {i \in DOMAIN entries : Len(entries[i].key) = 0}
    IN  IF stops = {} THEN entries
        ELSE SubSeq(entries, 1, (CHOOSE i \in stops : \A j \in stops : i <= j) - 1)

\* the compiled default table of build f: the sentinel followed by the
\* well-formed records of the default list
CompiledDefaultTable(f) ==
    SelectSeq(BeforeEmptyKey(<<MagicEntry(HeaderCode(f.magic, f.version))>>
                             \o f.defaults),
              WellFormed)

\* the header code that the text of the region's first record parses to
StoredCode == strtoul(StoredMagicText(flash, Region.offset))

\* the number of records settings_init lets the scan read
NumEntries(f) == Len(f.defaults) + 1

RegionRecord(idx) == FlashEntry(flash, Region.offset, idx)

\* record idx of the region is validly scanned by build f: the header code
\* is the expected one, the record is within the scan bound and no record
\* up to it ends the scan
Scanned(f, idx) ==
    /\ StoredCode = HeaderCode(f.magic, f.version)
    /\ idx < NumEntries(f)
    /\ \A j \in 0..idx : WellFormed(RegionRecord(j))

\* the entry settings_find_entry returns for key
FoundEntry(c, key) == EntryAt(c.entries, settings_find_entry(c, key))

Found(c, key) == settings_find_entry(c, key) # 0

AppKeys == {KeyA, KeyB, KeyC}

(***************************************************************************)
(* Round trip.                                                             *)
(***************************************************************************)
\* C1: when settings_init returns on a region that settings_save last wrote
\* from an initialised context of the same build (same defaults, offset,
\* size, magic and version, the defaults well-formed and without a repeated
\* key), every application key has the (type, value) pair it had at the
\* save.
C1_RoundTrip ==
    (/\ InitReturned
     /\ ValidDefaults(fw)
     /\ prov[RegionPage].kind = "saved"
     /\ prov[RegionPage].fw = fw)
    => \A i \in DOMAIN prov[RegionPage].table :
          LET e == prov[RegionPage].table[i]
          IN  e.key \in AppKeys
              => /\ Found(ctx, e.key)
                 /\ FoundEntry(ctx, e.key).dataType = e.dataType
                 /\ FoundEntry(ctx, e.key).value = e.value

(***************************************************************************)
(* Load and merge.                                                         *)
(***************************************************************************)
\* C2 as stated: after settings_init, for every key K of the defaults, if
\* the region holds a validly-scanned record for K with type T and value
\* V, the entry found for K has type T and value V.
C2_AnyScannedRecordWins ==
    InitReturned
    => \A i \in DOMAIN fw.defaults : \A idx \in 0..(NumEntries(fw) - 1) :
          (/\ Scanned(fw, idx)
           /\ RegionRecord(idx).key = fw.defaults[i].key)
          => /\ Found(ctx, fw.defaults[i].key)
             /\ FoundEntry(ctx, fw.defaults[i].key).dataType
                    = RegionRecord(idx).dataType
             /\ FoundEntry(ctx, fw.defaults[i].key).value
                    = RegionRecord(idx).value

\* C2: after settings_init, for every key K of the defaults, if the region
\* holds a validly-scanned record for K, the entry found for K has the type
\* and value of the last validly-scanned record for K.
C2_LastScannedRecordWins ==
    InitReturned
    => \A i \in DOMAIN fw.defaults : \A idx \in 0..(NumEntries(fw) - 1) :
          (/\ Scanned(fw, idx)
           /\ RegionRecord(idx).key = fw.defaults[i].key
           /\ \A later \in (idx + 1)..(NumEntries(fw) - 1) :
                 Scanned(fw, later)
                 => RegionRecord(later).key # fw.defaults[i].key)
          => /\ Found(ctx, fw.defaults[i].key)
             /\ FoundEntry(ctx, fw.defaults[i].key).dataType
                    = RegionRecord(idx).dataType
             /\ FoundEntry(ctx, fw.defaults[i].key).value
                    = RegionRecord(idx).value

\* settings_init has loaded a region with two scanned records for KeyA and
\* the entry for KeyA has the value of the second
C2_Witness ==
    /\ InitReturned
    /\ fw = Firmware1
    /\ flash[RegionPage] = TwiceImage
    /\ Scanned(fw, 2)
    /\ FoundEntry(ctx, KeyA).value = <<"9">>

\* C3: whenever the header code read from the region's first record is not
\* the expected one, the table settings_init produces is the compiled
\* default table: the sentinel followed by the defaults (for a default list
\* that fits the buffer together with the sentinel).
C3_DefaultFallback ==
    (InitReturned /\ FitsRegion(fw)
     /\ StoredCode # HeaderCode(fw.magic, fw.version))
    => Table(ctx) = CompiledDefaultTable(fw)

\* settings_init has returned on a region with another header code that
\* holds a well-formed record of a default key with another value
C3_Witness ==
    /\ InitReturned
    /\ StoredCode # HeaderCode(fw.magic, fw.version)
    /\ \E idx \in 1..(NumEntries(fw) - 1) :
          /\ WellFormed(RegionRecord(idx))
          /\ Found(ctx, RegionRecord(idx).key)
          /\ FoundEntry(ctx, RegionRecord(idx).key).value
                 # RegionRecord(idx).value

\* C4: for every region content, the keys of the table after settings_init
\* are, in order, the sentinel key and the keys of the well-formed
\* defaults, and every entry is its default or a record of the region with
\* the entry's own key: a record with another key adds and changes nothing
\* (for a default list that fits the buffer together with the sentinel).
C4_SchemaDrift ==
    (InitReturned /\ FitsRegion(fw))
    => LET T == Table(ctx)
           D == CompiledDefaultTable(fw)
       IN  /\ Len(T) = Len(D)
           /\ \A i \in DOMAIN T :
                 /\ T[i].key = D[i].key
                 /\ \/ T[i] = D[i]
                    \/ \E idx \in 0..(EntriesPerPage - 1) :
                          RegionRecord(idx) = T[i]

\* settings_init has scanned a record whose key no entry of the table has
C4_Witness ==
    /\ InitReturned
    /\ ValidDefaults(fw)
    /\ \E idx \in 1..(NumEntries(fw) - 1) :
          /\ Scanned(fw, idx)
          /\ \A i \in 1..ctx.count :
                EntryAt(ctx.entries, i).key # RegionRecord(idx).key

(***************************************************************************)
(* Find and put.                                                           *)
(***************************************************************************)
\* a put call returns in this step
PutReturns == pc = "idle" /\ pc' = "returned" /\ last'.op \in PutOps

\* malformed keys: those given to the calls, and more that are only tried
MalformedKeys ==
    BadKeys \cup {<<" ">>, <<"A", "b">>, <<"_", "$">>, <<"1", ".", "2">>}

\* values that are only tried
TriedStrings == PutStrings \cup {String(<<>>), String(<<"y">>),
                                 String(Rep("z", SETTINGS_MAX_VALUE_LENGTH - 1))}

TriedIntegers == PutIntegers \cup {0, 7, 2147483647}

\* what every put call on context c with key would return
PutResults(c, key) ==
    {settings_put_bool(c, key, b) : b \in BOOLEAN}
    \cup {settings_put_string(c, key, t) : t \in TriedStrings}
    \cup {settings_put_integer(c, key, n) : n \in TriedIntegers}

\* context c rejects key: it is not found and every put fails and leaves
\* the context as it is
Rejects(c, key) ==
    /\ ~Found(c, key)
    /\ PutResults(c, key) = {[ctx |-> c, ret |-> -1]}

\* C5: for every key that is empty or has a character outside A-Z, 0-9
\* and '_', settings_find_entry finds nothing and every put fails, and the
\* context and the flash are unchanged.  (Every context is tried once,
\* in the step that produces it.)
C5_KeyValidation ==
    [][/\ ctx' # ctx => \A k \in MalformedKeys : Rejects(ctx', k)
       /\ (PutReturns /\ last'.key \in BadKeys)
          => (last'.ret = -1 /\ ctx' = ctx /\ flash' = flash)]_vars

\* settings_put_string has returned for a malformed key that the default
\* list of the build has
C5_Witness ==
    /\ pc = "returned"
    /\ last.op = "put_string"
    /\ last.key = LowerKey
    /\ last.ret = -1
    /\ life = "ready"
    /\ \E i \in DOMAIN fw.defaults : fw.defaults[i].key = LowerKey

\* key is the key of no live entry of context c
Absent(c, key) == \A i \in 1..c.count : EntryAt(c.entries, i).key # key

\* C6: a put with a well-formed key that no live entry has fails and
\* leaves the context as it is; no put changes the count or a key.
C6_PutOnAbsentKey ==
    [][PutReturns
       => /\ ctx'.count = ctx.count
          /\ \A i \in 1..ctx.count :
                EntryAt(ctx'.entries, i).key = EntryAt(ctx.entries, i).key
          /\ (last'.key \notin BadKeys /\ Absent(ctx, last'.key))
             => (last'.ret = -1 /\ ctx' = ctx /\ flash' = flash)]_vars

\* settings_put_integer has returned for KeyC on a table of three entries
C6_Witness ==
    /\ pc = "returned"
    /\ last.op = "put_integer"
    /\ last.key = KeyC
    /\ last.ret = -1
    /\ life = "ready"
    /\ ctx.count = 3
    /\ Absent(ctx, KeyC)

\* the decimal text of an integer
RECURSIVE Decimal(_)
Decimal(n) ==
    IF n < 0 THEN <<"-">> \o Decimal(0 - n)
    ELSE IF n < 10 THEN <<DigitChars[n + 1]>>
    ELSE Decimal(n \div 10) \o <<DigitChars[(n % 10) + 1]>>

TypeOfPut(op) ==
    IF op = "put_bool" THEN SETTINGS_TYPE_BOOL
    ELSE IF op = "put_integer" THEN SETTINGS_TYPE_INT
    ELSE SETTINGS_TYPE_STRING

\* the text the caller of a put expects to read back
TextOfPut(op, arg) ==
    IF op = "put_bool" THEN (IF arg.b THEN TextTrue ELSE TextFalse)
    ELSE IF op = "put_integer" THEN Decimal(arg.n)
    ELSE arg.s.text

\* settings_find_entry on c returns an entry with key, type and text
ReadsBack(c, key, type, text) ==
    /\ Found(c, key)
    /\ FoundEntry(c, key) = Entry(key, type, text)

\* C7 as stated: after a successful put the entry found for the key has
\* the type of the put and, as value, "true"/"false", the decimal text of
\* n, or s.
C7_ReadsArgument ==
    (pc = "returned" /\ last.op \in PutOps /\ last.ret = 0)
    => ReadsBack(ctx, last.key, TypeOfPut(last.op),
                 TextOfPut(last.op, last.arg))

\* the value capacity less the terminator
ValueRoom == SETTINGS_MAX_VALUE_LENGTH - 1

\* the entry found for key k is the same before and after the step
SameEntry(k) ==
    Found(ctx, k) => (Found(ctx', k) /\ FoundEntry(ctx', k) = FoundEntry(ctx, k))

\* the step is one after which the entry of k may differ: a successful put
\* on k, settings_erase, settings_deinit, settings_init, or a restart
MayChange(k) ==
    \/ last'.op \in {"erase", "deinit", "init"}
    \/ last'.op \in PutOps /\ last'.ret = 0 /\ last'.key = k
    \/ life' = "zero"

\* every put that would succeed on c reads back
WouldReadBack(c) ==
    \A k \in Keys :
       /\ \A b \in BOOLEAN :
             LET r == settings_put_bool(c, k, b)
             IN  r.ret = 0
                 => ReadsBack(r.ctx, k, SETTINGS_TYPE_BOOL,
                              IF b THEN TextTrue ELSE TextFalse)
       /\ \A n \in TriedIntegers :
             LET r == settings_put_integer(c, k, n)
             IN  r.ret = 0
                 => ReadsBack(r.ctx, k, SETTINGS_TYPE_INT, Decimal(n))
       /\ \A t \in TriedStrings :
             LET r == settings_put_string(c, k, t)
             IN  r.ret = 0
                 => ReadsBack(r.ctx, k, SETTINGS_TYPE_STRING,
                              Take(t.text, ValueRoom))

\* C7: after a successful put the entry found for the key has the type of
\* the put and, as value, "true"/"false", the decimal text of n, or the
\* first 95 characters of s; the entry found for a key stays as it is
\* until the next successful put on the key, settings_erase,
\* settings_deinit, settings_init or a restart.  (Besides the puts that
\* are called, more puts are tried on every context settings_init returns.)
C7_ReadYourWrites ==
    [][/\ (pc' = "returned" /\ last'.op \in PutOps /\ last'.ret = 0)
          => ReadsBack(ctx', last'.key, TypeOfPut(last'.op),
                       Take(TextOfPut(last'.op, last'.arg), ValueRoom))
       /\ InitReturned' => WouldReadBack(ctx')
       /\ ctx' # ctx => \A k \in Keys : MayChange(k) \/ SameEntry(k)]_vars

\* settings_put_string has stored a string longer than the value field
C7_Witness ==
    /\ pc = "returned"
    /\ last.op = "put_string"
    /\ last.ret = 0
    /\ last.key = KeyA
    /\ Len(last.arg.s.text) > ValueRoom
    /\ FoundEntry(ctx, KeyA).value = Take(last.arg.s.text, ValueRoom)

(***************************************************************************)
(* Persistence.                                                            *)
(***************************************************************************)
\* C8: when settings_init returns after puts that no save followed, every
\* application key has the (type, value) pair of the last save of the same
\* build, and the table is the compiled default table if the region was
\* never saved.
C8_NoImplicitPersistence ==
    (InitReturned /\ unsaved /\ ValidDefaults(fw))
    => /\ (prov[RegionPage].kind = "saved" /\ prov[RegionPage].fw = fw)
          => \A i \in DOMAIN prov[RegionPage].table :
                LET e == prov[RegionPage].table[i]
                IN  e.key \in AppKeys => ReadsBack(ctx, e.key, e.dataType, e.value)
       /\ prov[RegionPage].kind \in {"blank", "erased", "wiped"}
          => Table(ctx) = CompiledDefaultTable(fw)

\* C9: when settings_init returns on a region that settings_erase wrote
\* last, every entry of the table is its compiled-in default (for a default
\* list that fits the buffer together with the sentinel).
C9_EraseResetsToDefaults ==
    (InitReturned /\ FitsRegion(fw)
     /\ prov[RegionPage].kind \in {"erased", "wiped"})
    => Table(ctx) = CompiledDefaultTable(fw)

\* settings_init has returned after puts and an erase of saved data
C9_Witness ==
    /\ InitReturned
    /\ prov[RegionPage].kind = "wiped"
    /\ nput > 0
    /\ last.ret = ctx.count

\* context c is inert: no entry, no buffer, nothing found, every put fails
Inert(c) ==
    /\ c.count = 0
    /\ c.entries = NULL
    /\ \A k \in Keys \cup MalformedKeys : Rejects(c, k)

\* C10: from settings_erase to the next settings_init the context has
\* count 0 and no entry buffer, settings_find_entry finds no key, and every
\* put fails and changes neither the context nor the flash.
C10_InertAfterErase ==
    [][/\ Erased' => Inert(ctx')
       /\ (Erased /\ PutReturns)
          => (last'.ret = -1 /\ ctx' = ctx /\ flash' = flash
              /\ life' = life)]_vars

\* a put on a default key has returned on a context that was initialised
\* and then erased
C10_Witness ==
    /\ life = "erased"
    /\ pc = "returned"
    /\ last.op = "put_bool"
    /\ last.key = KeyA
    /\ last.ret = -1
    /\ ctx.flashSettingsOffset = Region.offset
    /\ prov[RegionPage].kind = "wiped"

\* every page of the context's region was last written by settings_erase
RegionAsErased == \A p \in CtxPages : prov[p].kind \in {"erased", "wiped"}

\* C11: settings_erase on a context that settings_erase left, with no
\* settings_init and no write to the region in between, returns 0, hands no
\* buffer to free, and leaves the context and the flash as the first erase
\* left them.
C11_IdempotentErase ==
    [][(Erased /\ RegionAsErased /\ last'.op = "erase")
       => /\ settings_erase(ctx, flash).freed = NULL
          /\ last'.ret = 0
          /\ pc' = "returned"
          /\ ctx' = ctx
          /\ flash' = flash]_vars

\* the second settings_erase has returned on a context that was initialised
\* over the region, changed by a put, saved and erased
C11_Witness ==
    /\ life = "erased again"
    /\ pc = "returned"
    /\ last.op = "erase"
    /\ last.ret = 0
    /\ ctx.flashSettingsOffset = Region.offset
    /\ ctx.flashSettingsSize = Region.size
    /\ nput > 0
    /\ flash[RegionPage] = ErasedPage

\* the (magic, version) pairs of the firmware builds and the extreme ones
HeaderPairs ==
    {Header1, Header0, [magic |-> 0, version |-> 1],
     [magic |-> 1, version |-> 0], [magic |-> Limb - 1, version |-> Limb - 1]}

\* two distinct pairs have distinct header codes and distinct header texts,
\* and the text of a code parses back to the code
HeaderCodesDiffer ==
    \A h1, h2 \in HeaderPairs :
       LET c1 == HeaderCode(h1.magic, h1.version)
           c2 == HeaderCode(h2.magic, h2.version)
       IN  /\ strtoul(DecimalText(c1)) = c1
           /\ h1 # h2 => (c1 # c2 /\ DecimalText(c1) # DecimalText(c2))

\* the region was last written by settings_save of a build whose
\* (magic, version) pair is not the running build's
SavedUnderOtherHeader ==
    /\ prov[RegionPage].kind = "saved"
    /\ <<prov[RegionPage].fw.magic, prov[RegionPage].fw.version>>
          # <<fw.magic, fw.version>>

\* C12: distinct (magic, version) pairs have distinct header codes, and when
\* settings_init returns on a region saved under another pair the table is
\* the compiled default table.
C12_MismatchInvalidates ==
    /\ HeaderCodesDiffer
    /\ (InitReturned /\ SavedUnderOtherHeader)
       => Table(ctx) = CompiledDefaultTable(fw)

\* C13: whenever settings_init returns and leaves a populated context, the
\* value it returns is the number of entries of the table, also when the
\* region is blank or its header does not match.
C13_InitReturnsCount ==
    (InitReturned /\ ctx.count > 0) => last.ret = ctx.count

\* C14: once settings_init has returned, count is at most the number of
\* records the region holds, and settings_save does not fail.
C14_CapacityInvariant ==
    life = "ready"
    => /\ ctx.count <= MaxEntries(ctx.flashSettingsSize)
       /\ (pc = "returned" /\ last.op = "save") => last.ret = 0

\* a size or an offset that is no multiple of the flash page size
Misaligned(geo) ==
    \/ geo.size % SETTINGS_FLASH_PAGE_SIZE # 0
    \/ geo.offset % SETTINGS_FLASH_PAGE_SIZE # 0

\* the context's offset and size are multiples of the flash page size
Aligned(c) ==
    /\ c.flashSettingsSize % SETTINGS_FLASH_PAGE_SIZE = 0
    /\ c.flashSettingsOffset % SETTINGS_FLASH_PAGE_SIZE = 0

\* a call of settings_init with geometry geo, whatever its outcome
InitWith(geo) ==
    \/ InitAbort(geo)
    \/ InitNoMemory(geo)
    \/ \E heap \in HeapContents(fw) :
          \/ InitCall(geo, heap)
          \/ InitNoMemory2(geo, heap)
          \/ InitOverflow(geo, heap)

\* C15: a call of settings_init with a size or an offset that is no multiple
\* of 4096 stops the program and returns nothing, and the offset and size of
\* the context are multiples of 4096 in every state.
C15_FatalAlignment ==
    [][/\ \A geo \in Geometries :
             (last'.op = "init" /\ Misaligned(geo) /\ InitWith(geo))
             => (pc' = "stopped" /\ life' = "aborted")
       /\ Aligned(ctx)
       /\ Aligned(ctx')]_vars

\* settings_init was called with a misaligned offset on a zeroed context:
\* the size was assigned, the offset was not, and the program has stopped
C15_Witness ==
    /\ life = "aborted"
    /\ pc = "stopped"
    /\ last.op = "init"
    /\ ctx.flashSettingsSize = Region.size
    /\ ctx.flashSettingsOffset = 0
    /\ ctx.entries = NULL

\* C16: in every state of an initialised context the first entry of the
\* table is the sentinel: key MAGICVERSION, type Integer, and the decimal
\* text of the header code as its value.
C16_SentinelInvariant ==
    life = "ready"
    => /\ ctx.count > 0
       /\ EntryAt(ctx.entries, 1)
             = MagicEntry(HeaderCode(fw.magic, fw.version))

\* C17: in every state of an initialised context every live entry has a
\* non-empty key over A-Z, 0-9 and "_", and no two live entries have the
\* same key.
C17_KeysWellFormedAndUnique ==
    life = "ready"
    => LET T == Table(ctx)
       IN  /\ \A i \in DOMAIN T :
                 /\ Len(T[i].key) > 0
                 /\ \A n \in 1..Len(T[i].key) :
                       T[i].key[n] \in Upper \cup Digit \cup {"_"}
           /\ \A i, j \in DOMAIN T : T[i].key = T[j].key => i = j

\* the statuses of the puts on key that fail in context c
FailureStatuses(c, key) ==
    {r.ret : r \in {q \in PutResults(c, key) : q.ret # 0}}

\* C18: on an initialised context the status of a put that fails for a
\* malformed key differs from the status of a put that fails for a
\* well-formed key that is absent, and the status of a settings_save that
\* fails differs from both.
C18_DistinctStatuses ==
    (life = "ready" /\ pc = "idle")
    => \A bad \in BadKeys, key \in AppKeys :
          Absent(ctx, key)
          => LET InvalidKey == FailureStatuses(ctx, bad)
                 KeyNotFound == FailureStatuses(ctx, key)
                 save == settings_save(ctx, flash, TRUE).ret
             IN  /\ InvalidKey \cap KeyNotFound = {}
                 /\ save # 0 => save \notin InvalidKey \cup KeyNotFound

\* the flash page of the region of context who
PageOfRegion(who) == RegionOf(who).offset \div SETTINGS_FLASH_PAGE_SIZE

\* C19: a call on one of two contexts over disjoint regions leaves the other
\* context (table, count, geometry) and every record of the other context's
\* region as they are.
C19_ContextIndependence ==
    [][/\ (peer' = peer /\ flash'[PageOfRegion(2)] = flash[PageOfRegion(2)])
          \/ ~OnContext(1)
       /\ (ctx' = ctx /\ flash'[PageOfRegion(1)] = flash[PageOfRegion(1)])
          \/ ~OnContext(2)]_vars

\* the first context has been erased while the second holds a table that
\* a put changed and its region holds that table
C19_Witness ==
    /\ last.op = "erase"
    /\ pc = "idle"
    /\ ctx.entries = NULL
    /\ ctx.flashSettingsOffset = Region.offset
    /\ flash[PageOfRegion(1)] = ErasedPage
    /\ peer.count = Len(Firmware2.defaults) + 1
    /\ Table(peer) # CompiledDefaultTable(Firmware2)
    /\ \A i \in 1..peer.count :
          FlashEntry(flash, Region2.offset, i - 1) = EntryAt(peer.entries, i)

\* C20: no interrupt handler runs between entering and leaving the critical
\* section of settings_save with disable_interrupts and of settings_erase, so
\* a handler does not find the region erased and not yet programmed by such
\* a save.
C20_MaskedAtomicity ==
    [][Handler => /\ ~InCriticalSection
                  /\ ~(pc = "save_program" /\ Masking /\ seen'.blank)]_vars

\* a save with disable_interrupts has replaced a saved table by another one
\* and returned, and a handler has then read the new table from the region
C20_Witness ==
    /\ last.op = "save"
    /\ Masking
    /\ pc = "idle"
    /\ irq
    /\ nput > 1
    /\ seen = Seen("idle", FALSE, FALSE)
    /\ \A i \in 1..ctx.count :
          FlashEntry(flash, Region.offset, i - 1) = EntryAt(ctx.entries, i)

\* a save without disable_interrupts lets a handler find the region erased
C20_UnmaskedWindow ==
    seen = Seen("save_program", FALSE, TRUE)

(***************************************************************************)
(* Frames of deinit and print, effect of save.                             *)
(***************************************************************************)
\* settings_deinit returns in this step
DeinitReturns == pc = "idle" /\ pc' = "returned" /\ last'.op = "deinit"

\* settings_init returns in this step, called after settings_deinit with
\* the parameters of the build that saved the region last
ReinitReturns ==
    /\ life = "deinit"
    /\ InitReturned'
    /\ ctx'.flashSettingsOffset = Region.offset
    /\ prov[RegionPage].kind = "saved"
    /\ prov[RegionPage].fw = fw

\* C21: settings_deinit leaves the flash as it is and the context with
\* count 0 and no entry buffer; a settings_init that follows it with the
\* original parameters (defaults well-formed and without a repeated key)
\* yields the table that the last settings_save wrote.
C21_DeinitKeepsStorage ==
    [][/\ DeinitReturns
          => (flash' = flash /\ ctx'.count = 0 /\ ctx'.entries = NULL)
       /\ (ReinitReturns /\ ValidDefaults(fw))
          => Table(ctx') = prov[RegionPage].table]_vars

RECURSIVE Rendering(_)
\* the entries of table T, one per line in table order, as "key (type): value"
Rendering(T) ==
    IF Len(T) = 0 THEN <<>> ELSE PrintLine(Head(T)) \o Rendering(Tail(T))

\* settings_print has returned with a buffer to write to
Printed == last.op = "print" /\ last.key # <<"nomem">>

\* C22: settings_print leaves the table, count, geometry and region as they
\* are, and with a caller's buffer as with its own it renders the live
\* entries one per line in table order as "key (type): value".
C22_PrintReadOnly ==
    [][/\ last'.op = "print" => (ctx' = ctx /\ flash' = flash)
       /\ Printed' => last'.arg.s.text = Rendering(Table(ctx))]_vars

\* settings_save has just returned success
SaveReturned == pc = "returned" /\ last.op = "save" /\ last.ret = 0

\* record idx (from 0) of the context's region
CtxRecord(idx) == FlashEntry(flash, ctx.flashSettingsOffset, idx)

\* settings_init has given the context the region and a table, and
\* settings_deinit has not followed
SetUp == (life = "ready" \/ Erased) /\ ctx.flashSettingsOffset = Region.offset

\* C23: when settings_save returns success on a context that settings_init
\* has set up (erased since or not), record i of the region is entry i of
\* the table for every i < count and record 0 is the sentinel.
C23_SaveEffect ==
    (SaveReturned /\ SetUp)
    => /\ \A i \in 1..ctx.count : CtxRecord(i - 1) = EntryAt(ctx.entries, i)
       /\ CtxRecord(0).key = SETTINGS_MAGICVERSION_KEY

(***************************************************************************)
(* Failed save.                                                            *)
(***************************************************************************)
\* settings_save is called in this step of SpecIrq
SaveCalled == pc = "idle" /\ last'.op = "save" /\ last' # last

\* C24: a settings_save on a table of more bytes than the region returns
\* failure and is over at once: no flash call and no critical section
\* follow, and flash, context and interrupt state are as before.
C24_FailedSaveChangesNothing ==
    [][(SaveCalled /\ ctx.count * SizeofEntry > ctx.flashSettingsSize)
       => /\ last'.ret = -1
          /\ pc' = "idle"
          /\ flash' = flash
          /\ ctx' = ctx
          /\ irq' = irq
          /\ ints' = ints]_vars

\* settings_save with disable_interrupts has failed on a table of 33
\* entries for a region of 32 records, interrupts enabled
C24_Witness ==
    /\ last.op = "save"
    /\ last.ret = -1
    /\ Masking
    /\ pc = "idle"
    /\ irq
    /\ ctx.count = MaxEntries(ctx.flashSettingsSize) + 1
    /\ ctx.flashSettingsOffset = Region.offset
    /\ flash[RegionPage] = ErasedPage

(***************************************************************************)
(* Load of the defaults and scan of the region.                            *)
(***************************************************************************)
RECURSIVE KeptDefaults(_)
\* the entries of a default list that precede its first entry with an empty
\* key and have a well-formed key and a known type, in their order
KeptDefaults(defaults) ==
    IF Len(defaults) = 0 \/ Len(Head(defaults).key) = 0 THEN <<>>
    ELSE IF WellFormed(Head(defaults))
         THEN <<Head(defaults)>> \o KeptDefaults(Tail(defaults))
         ELSE KeptDefaults(Tail(defaults))

\* C25: when settings_init returns on a region whose header does not match,
\* the table is the sentinel followed by the kept defaults, and count is
\* one more than their number; a malformed default does not stop init.
C25_DefaultLoading ==
    (InitReturned /\ StoredCode # HeaderCode(fw.magic, fw.version))
    => /\ Table(ctx)
            = <<MagicEntry(HeaderCode(fw.magic, fw.version))>>
                  \o KeptDefaults(fw.defaults)
       /\ ctx.count = 1 + Len(KeptDefaults(fw.defaults))

\* settings_init has returned on a region of another header with a default
\* list of a malformed entry followed by a well-formed one
C25_Witness ==
    /\ InitReturned
    /\ StoredCode # HeaderCode(fw.magic, fw.version)
    /\ flash[RegionPage] # ErasedPage
    /\ Len(fw.defaults) = MaxDefaults
    /\ ~WellFormed(fw.defaults[1])
    /\ Len(fw.defaults[1].key) > 0
    /\ WellFormed(fw.defaults[MaxDefaults])
    /\ ctx.count = MaxDefaults

(***************************************************************************)
(* The load scan (settings.c:526-565) under SpecLoad.                      *)
(***************************************************************************)
\* the position of the first record of the region that is not well-formed
FirstInvalid ==
    LET bad == {k \in 0..(EntriesPerPage - 1) : ~WellFormed(RegionRecord(k))}
    IN  IF bad = {} THEN EntriesPerPage
        ELSE CHOOSE k \in bad : \A j \in bad : k <= j

\* the table of build f after the records before position n are applied in
\* region order: an entry that is the first of its key holds the last such
\* record of that key, every other entry holds its default
AppliedBefore(f, n) ==
    LET T == CompiledDefaultTable(f)
    IN  [i \in 1..Len(T) |->
           LET hits == {k \in 0..(n - 1) : RegionRecord(k).key = T[i].key}
               first == \A j \in 1..(i - 1) : T[j].key # T[i].key
           IN  IF first /\ hits # {}
               THEN RegionRecord(CHOOSE k \in hits : \A j \in hits : j <= k)
               ELSE T[i]]

HeaderAccepted == InitReturned /\ StoredCode = HeaderCode(fw.magic, fw.version)

\* C26: with a matching header, the scan applies the records in region
\* order and stops at the first record with an empty key, a key outside the
\* character set or an unknown type tag; the Context is what the records
\* before that position make of the defaults, so no record at or after it
\* changes the Context.
C26_ScanStopsAtInvalid ==
    (HeaderAccepted /\ FirstInvalid < NumEntries(fw))
        => Table(ctx) = AppliedBefore(fw, FirstInvalid)

\* the scan of two defaults met an invalid record at position 1, and the
\* well-formed record of a default key behind it was left out
C26_Witness ==
    /\ HeaderAccepted
    /\ FirstInvalid = 1
    /\ NumEntries(fw) = MaxDefaults + 1
    /\ WellFormed(RegionRecord(2))
    /\ \E i \in 2..ctx.count :
          /\ EntryAt(ctx.entries, i).key = RegionRecord(2).key
          /\ EntryAt(ctx.entries, i) # RegionRecord(2)

\* C27: with a matching header, the scan reads at most one record for the
\* sentinel and one for each entry of the default list, whatever their
\* keys; when all of these are well-formed the Context is what exactly
\* these records make of the defaults, and a well-formed record behind
\* them is not applied.
C27_ScanBound ==
    (HeaderAccepted /\ FirstInvalid >= NumEntries(fw))
        => Table(ctx) = AppliedBefore(fw, NumEntries(fw))

\* the scan read a record whose key no default has, and the well-formed
\* record of a default key right behind the bound was left out
C27_Witness ==
    /\ HeaderAccepted
    /\ FirstInvalid > NumEntries(fw)
    /\ NumEntries(fw) = MaxDefaults
    /\ \A i \in 1..ctx.count :
          EntryAt(ctx.entries, i).key # RegionRecord(NumEntries(fw) - 1).key
    /\ \E i \in 2..ctx.count :
          /\ EntryAt(ctx.entries, i).key = RegionRecord(NumEntries(fw)).key
          /\ EntryAt(ctx.entries, i) # RegionRecord(NumEntries(fw))

(***************************************************************************)
(* What a successful put changes (settings.c:744-754).                     *)
(***************************************************************************)
PutSucceeds == PutReturns /\ last'.ret = 0

\* the index of the entry the put of this step is for
PutIndex == settings_find_entry(ctx, last'.key)

\* C28: a successful put changes only the type tag and the value text of
\* one entry whose key is the key of the call; that entry's key, every
\* other entry, the count, the order of the entries, the header code, the
\* geometry and the flash are as before.
C28_PutFrame ==
    [][PutSucceeds =>
          /\ PutIndex \in 1..ctx.count
          /\ EntryAt(ctx.entries, PutIndex).key = last'.key
          /\ EntryAt(ctx'.entries, PutIndex).key = last'.key
          /\ \A j \in 1..ctx.count :
                j # PutIndex
                    => EntryAt(ctx'.entries, j) = EntryAt(ctx.entries, j)
          /\ ctx'.entries.n = ctx.entries.n
          /\ [ctx' EXCEPT !.entries = NULL] = [ctx EXCEPT !.entries = NULL]
          /\ flash' = flash]_vars

\* a put has changed the type and the value of an entry that is neither
\* the first nor the last of a table that was loaded from the region
C28_Witness ==
    /\ pc = "returned"
    /\ last.op = "put_integer"
    /\ last.ret = 0
    /\ ctx.count >= 3
    /\ settings_find_entry(ctx, last.key) \in 2..(ctx.count - 1)
    /\ FoundEntry(ctx, last.key).dataType = SETTINGS_TYPE_INT
    /\ \E i \in DOMAIN fw.defaults :
          /\ fw.defaults[i].key = last.key
          /\ fw.defaults[i].dataType # SETTINGS_TYPE_INT
    /\ flash[RegionPage] # ErasedPage

(***************************************************************************)
(* The schema of a table: its count and its keys in table order.           *)
(***************************************************************************)
KeyOrder(c) == [i \in 1..c.count |-> EntryAt(c.entries, i).key]

SchemaOps == {"find", "print", "save"} \cup PutOps

\* context c holds the table settings_init made for build f
Initialised(c, f) ==
    /\ c.entries # NULL
    /\ c.count = Len(CompiledDefaultTable(f))
    /\ KeyOrder(c) = [i \in 1..c.count |-> CompiledDefaultTable(f)[i].key]

\* C29: a call of settings_find_entry, settings_put_bool,
\* settings_put_string, settings_put_integer, settings_save or
\* settings_print changes neither the count nor the sequence of keys of a
\* table, so both stay as settings_init made them until the next
\* settings_erase, settings_deinit or settings_init on the context.
C29_FixedSchema ==
    [][last'.op \in SchemaOps
          => /\ \/ ctx' = ctx
                \/ /\ ctx'.count = ctx.count
                   /\ KeyOrder(ctx') = KeyOrder(ctx)
                   /\ Initialised(ctx, Firmware1) => Initialised(ctx', Firmware1)
             /\ \/ peer' = peer
                \/ /\ peer'.count = peer.count
                   /\ KeyOrder(peer') = KeyOrder(peer)
                   /\ Initialised(peer, Firmware2)
                         => Initialised(peer', Firmware2)]_vars

\* the first context was set up, a put changed a value of it, the table
\* was saved and then printed: the schema is the one of the defaults
C29_Witness ==
    /\ last.op = "print"
    /\ nput = MaxTwoPuts
    /\ Initialised(ctx, Firmware1)
    /\ Table(ctx) # CompiledDefaultTable(Firmware1)
    /\ \A i \in 1..ctx.count :
          FlashEntry(flash, Region.offset, i - 1) = EntryAt(ctx.entries, i)

(***************************************************************************)
(* settings_put_string and the value field (settings.c:765-776, 748-752).  *)
(***************************************************************************)
\* a text of n characters whose first and last characters differ from the
\* others
Marked(n) == [i \in 1..n |-> IF i = 1 THEN "h" ELSE IF i = n THEN "t" ELSE "z"]

\* lengths below, at and above the capacity of the value field
TriedLengths ==
    {0, 1, ValueRoom, SETTINGS_MAX_VALUE_LENGTH, SETTINGS_MAX_VALUE_LENGTH + 1}

Shorter(a, b) == IF a < b THEN a ELSE b

\* context d is context c with the string text stored in entry i: the value
\* is the first min(len, capacity - 1) characters, value and terminator fit
\* the field, and nothing but the type and value of entry i differs
StoresString(c, d, i, text) ==
    /\ EntryAt(d.entries, i).value = SubSeq(text, 1, Shorter(Len(text), ValueRoom))
    /\ Len(EntryAt(d.entries, i).value) + 1 <= SETTINGS_MAX_VALUE_LENGTH
    /\ EntryAt(d.entries, i).dataType = SETTINGS_TYPE_STRING
    /\ EntryAt(d.entries, i).key = EntryAt(c.entries, i).key
    /\ d.entries = Store(c.entries, i, EntryAt(d.entries, i))
    /\ [d EXCEPT !.entries = NULL] = [c EXCEPT !.entries = NULL]

\* every settings_put_string on an existing key of c stores its string
StoresEveryString(c) ==
    \A k \in Keys : \A n \in TriedLengths :
       LET r == settings_put_string(c, k, String(Marked(n)))
       IN  Found(c, k) => /\ r.ret = 0
                          /\ StoresString(c, r.ctx, settings_find_entry(c, k),
                                          Marked(n))

\* C30: settings_put_string(K, s) on an existing key stores the first
\* min(len(s), 95) characters of s and the terminator in the value field
\* of the entry, for lengths of s below, at and above 96, and writes
\* nothing outside that value field but the entry's type tag.  (Besides
\* the calls of the program, strings of more lengths are tried on every
\* context settings_init returns.)
C30_StringTruncation ==
    [][/\ (PutSucceeds /\ last'.op = "put_string")
          => StoresString(ctx, ctx', PutIndex, last'.arg.s.text)
       /\ InitReturned' => StoresEveryString(ctx')]_vars

\* settings_put_string has put the first 95 of 96 characters into an entry
\* that is not the last of its table, and the entry behind it is a default
C30_Witness ==
    /\ pc = "returned"
    /\ last.op = "put_string"
    /\ last.ret = 0
    /\ Len(last.arg.s.text) = SETTINGS_MAX_VALUE_LENGTH
    /\ LET i == settings_find_entry(ctx, last.key)
       IN  /\ i \in 2..(ctx.count - 1)
           /\ Len(EntryAt(ctx.entries, i).value) = ValueRoom
           /\ EntryAt(ctx.entries, i + 1) = CompiledDefaultTable(fw)[i + 1]

(***************************************************************************)
(* The sentinel and the public lookup (settings.c:710-726).                *)
(***************************************************************************)
\* C31: on an initialised context settings_find_entry with the key
\* MAGICVERSION does not return the sentinel entry, the first entry of the
\* table.
C31_SentinelNotFound ==
    (life = "ready" /\ ctx.count > 0 /\ ctx.entries # NULL)
    => settings_find_entry(ctx, SETTINGS_MAGICVERSION_KEY) # 1

(***************************************************************************)
(* The flash range of the erase and program calls (settings.c:680-683,     *)
(* 697).  Every settings_init that returns in Spec was given Region.       *)
(***************************************************************************)
\* C32: no call changes a flash page outside the region given to the most
\* recent settings_init of the context, also after settings_deinit or
\* settings_erase.
C32_WritesConfined ==
    [][\A p \in FlashPages : flash'[p] # flash[p] => p = RegionPage]_vars

(***************************************************************************)
(* settings_save on a context without entry buffer (settings.c:661-690).   *)
(***************************************************************************)
\* settings_erase or settings_deinit was the last call that changed the
\* context, and no settings_init followed
NoBuffer == (Erased \/ life = "deinit") /\ ctx.entries = NULL

\* C33: settings_save on a context that settings_erase or settings_deinit
\* left without entry buffer returns failure and leaves the flash as it is.
C33_InertSaveRejected ==
    [][(SaveCalled /\ NoBuffer) => (last'.ret = -1 /\ flash' = flash)]_vars

(***************************************************************************)
(* A reset between the erase and the program of settings_save              *)
(* (settings.c:680-683), under SpecIrq.                                    *)
(***************************************************************************)
\* settings_init has returned a table on the region that a save erased and
\* did not program
InitAfterCut ==
    /\ pc = "idle"
    /\ last.op = "init"
    /\ ctx.entries # NULL
    /\ prov[RegionPage].kind = "cut"

\* C34: when a reset cuts settings_save after the erase of the region and
\* before its program, the settings_init that follows with the same
\* parameters yields the compiled default table: no entry has a value the
\* region held before.
C34_CutSaveGivesDefaults ==
    (InitAfterCut /\ FitsRegion(fw)) => Table(ctx) = CompiledDefaultTable(fw)

\* the region held a saved table with a value that is no default, a second
\* save was cut after its erase, and settings_init returned the defaults
C34_Witness ==
    /\ InitAfterCut
    /\ prov[RegionPage].fw = fw
    /\ Len(prov[RegionPage].table) = Len(fw.defaults) + 1
    /\ prov[RegionPage].table # CompiledDefaultTable(fw)
    /\ Table(ctx) = CompiledDefaultTable(fw)
    /\ flash[RegionPage] = ErasedPage

(***************************************************************************)
(* The critical sections of settings_save and settings_erase               *)
(* (settings.c:674-689, 695-698), under SpecIrq.                           *)
(***************************************************************************)
\* the step enters settings_save past its size test, or settings_erase
Enters == pc = "idle" /\ pc' \in {"save_erase", "erase_erase"}

\* the step is the last statement of the call that touches interrupts
Leaves ==
    \/ pc = "save_restore" /\ pc' = "idle"
    \/ pc = "erase_restore" /\ pc' = "erase_free"

\* C35: settings_save with disable_interrupts and settings_erase take the
\* interrupt state at entry as their token and disable interrupts, keep
\* the token and the disabled state through every statement up to the one
\* restore, and restore the state of the token, so that the interrupt state
\* at return is the state at entry; settings_save without
\* disable_interrupts, and a settings_save that fails, change the interrupt
\* state in no statement.
C35_BalancedCriticalSections ==
    [][Reset \/
       /\ (SaveCalled /\ last'.ret = -1) => (irq' = irq /\ pc' = "idle")
       /\ Enters => IF InCriticalSection'
                    THEN ints' = irq /\ ~irq'
                    ELSE irq' = irq
       /\ (pc # "idle" /\ ~Leaves)
          => /\ irq' = irq
             /\ InCriticalSection => (ints' = ints /\ ~irq)
       /\ Leaves => irq' = (IF InCriticalSection THEN ints ELSE irq)
       /\ (pc # "idle" /\ pc' = "idle")
          => pc \in {"save_restore", "erase_free"}]_vars

\* the state after a settings_save with disable_interrupts that the application
\* called with interrupts disabled: it has written the table and returned
\* with interrupts still disabled
C35_Witness ==
    /\ pc = "idle"
    /\ last.op = "save"
    /\ last.ret = 0
    /\ Masking
    /\ ~irq
    /\ ~ints
    /\ prov[RegionPage].kind = "saved"
    /\ \A i \in 1..ctx.count : CtxRecord(i - 1) = EntryAt(ctx.entries, i)

(***************************************************************************)
(* The header test on a blank region (settings.c:503-521, 606-608).        *)
(***************************************************************************)
\* settings_init has returned through the header-match path: it returns
\* the count, not the -1 of the mismatch path (settings.c:643)
TookMatchPath == InitReturned /\ last.ret # -1

\* C36: settings_init takes the header-match path only when the value
\* field of the region's first record is the decimal text of the header
\* code; on an erased region it takes the mismatch path, for every magic
\* and version, 0 and 0 included.
C36_BlankNeverCompatible ==
    /\ TookMatchPath
       => StoredMagicText(flash, Region.offset)
             = DecimalText(HeaderCode(fw.magic, fw.version))
    /\ (InitReturned /\ flash[RegionPage] = ErasedPage) => ~TookMatchPath

(***************************************************************************)
(* settings_init on a context that holds a table (settings.c:597-604,      *)
(* 430-435).                                                               *)
(***************************************************************************)
\* the table a settings_init on a context in static storage makes of the
\* region and the defaults of the running build: the defaults, with the
\* records the scan reads applied when the header matches
FreshTable ==
    IF StoredCode = HeaderCode(fw.magic, fw.version)
    THEN AppliedBefore(fw, Shorter(FirstInvalid, NumEntries(fw)))
    ELSE CompiledDefaultTable(fw)

\* the step is a settings_init that returns on a context that held a table
ReInit == pc = "idle" /\ life = "ready" /\ ctx.count > 0 /\ InitReturned'

\* C37: a settings_init on a context that already holds a table, with the
\* parameters of the build and an unchanged region, yields the count and
\* the table that a settings_init on a fresh context yields; the count
\* does not add up and no value of the old table stays.
C37_ReInitIdempotent ==
    [][(ReInit /\ FitsRegion(fw))
          => /\ Table(ctx') = FreshTable
             /\ ctx'.count = Len(FreshTable)]_vars

\* settings_init has returned on a context whose table a put had changed
\* and no save had written: the table is the fresh one again
C37_Witness ==
    /\ InitReturned
    /\ unsaved
    /\ nput > 0
    /\ Table(ctx) = FreshTable
    /\ ctx.count = Len(fw.defaults) + 1
    /\ Table(ctx) # CompiledDefaultTable(fw)

(***************************************************************************)
(* The two APIs on one sequence of calls, under SpecGen.                   *)
(***************************************************************************)
\* C38: after every call of one sequence of settings_init, put, find,
\* save and erase calls given to both APIs, the single-instance API and
\* the context-taking API have the same table (count, keys, types and
\* values in order), find the same entry for every key, and have written
\* the same content to their region.
C38_GenerationsAgree ==
    /\ peer.count = ctx.count
    /\ Table(peer) = Table(ctx)
    /\ \A k \in Keys :
          settings_find_entry_v1(peer, k) = settings_find_entry(ctx, k)
    /\ flash[PageOfRegion(2)] = flash[PageOfRegion(1)]

=============================================================================
